---- MODULE Spec2Model ----
(***************************************************************************)
(* The local HTTP API of the GitHub monitor (src/src-pyloid/server.py) and *)
(* its upstream client (src/src-pyloid/github_client.py).                  *)
(*                                                                         *)
(* One top-level call (get_tree or get_repo_details) is in flight at a     *)
(* time; it advances by one action per upstream request, the await points  *)
(* of the handlers.  Texts that the code builds by concatenation (logins,  *)
(* repository names, node ids, node names) are sequences of one-character  *)
(* strings, so that formatting and parsing are computed, not assumed.      *)
(* Tokens and base URLs are only compared and are plain strings, "" for    *)
(* an absent or empty value (the code only tests them for truth).          *)
(***************************************************************************)
EXTENDS Integers, Sequences, FiniteSets, TLC

VARIABLES
    settings,       \* config.settings: github_token, github_org, github_api_url
    gh,             \* what upstream holds (fixed during a behaviour)
    call,           \* the inputs of the call in flight
    pc,             \* where the call in flight stands
    client,         \* the GitHubClient the call constructed
    requests,       \* the upstream requests the call issued, in order
    orgs_to_fetch,  \* get_tree: the roots to expand
    idx,            \* get_tree: position in orgs_to_fetch; details: category
    repos,          \* get_org_repos / get_user_repos: repositories collected
    page,           \* get_org_repos / get_user_repos: next page to request
    scope,          \* get_org_repos: "org" or "user" endpoint
    personal_repos, \* get_tree: what client.get_user_repos() returned
    fetched,        \* get_tree: what client.get_org_repos() returned, per root
    tree_nodes,     \* get_tree: the roots built so far
    children,       \* build_repo_details: the containers built so far
    outcome,        \* what the call returned: status, detail, body
    prev,           \* the last successful get_tree: its inputs and ids
    track,          \* whether prev is recorded in this behaviour
    cm_config,      \* ConfigManager._config: None or the AppConfig in memory
    files,          \* the file system: what each path holds
    hist,           \* the ConfigManager calls made so far
    environment,    \* os.environ and the .env file of the process
    total_count     \* get_notifications_count: the count worked out so far

vars == <<settings, gh, call, pc, client, requests, orgs_to_fetch, idx, repos,
          page, scope, personal_repos, fetched, tree_nodes, children, outcome,
          prev, track, cm_config, files, hist, environment, total_count>>

-----------------------------------------------------------------------------
(* Bounds of the model *)

MaxRepos == 2
MaxItems == 22
MaxFaults == 6
MaxOps == 3
MaxWriteFaults == 1
MaxUnread == 101

(* Program constants *)

per_page == 100
workflows_cap == 20
runs_cap == 10
branches_cap == 20
prs_cap == 20
issues_cap == 20
notifications_per_page == 100
DefaultApiUrl == "https://api.github.com"
DefaultAutoRefresh == 300
DefaultNotificationsRefresh == 15
DefaultMaxReposPerOrg == 100

-----------------------------------------------------------------------------
(* Texts *)

Dash == <<"-">>
S_org == <<"o", "r", "g">>
S_repo == <<"r", "e", "p", "o">>
PersonalRepositories ==
    <<"P", "e", "r", "s", "o", "n", "a", "l", " ",
      "R", "e", "p", "o", "s", "i", "t", "o", "r", "i", "e", "s">>

Min(a, b) == IF a < b THEN a ELSE b

Digit(d) == <<"0", "1", "2", "3", "4", "5", "6", "7", "8", "9">>[d + 1]

\* str(n) for a non-negative integer, as the f-strings format it
RECURSIVE ToStr(_)
ToStr(n) == IF n < 10 THEN <<Digit(n)>>
            ELSE ToStr(n \div 10) \o <<Digit(n % 10)>>

\* orgs.split(',')
RECURSIVE SplitComma(_)
SplitComma(s) ==
    IF s = <<>> THEN << <<>> >>
    ELSE LET rest == SplitComma(Tail(s))
         IN  IF Head(s) = ","
             THEN << <<>> >> \o rest
             ELSE << <<Head(s)>> \o Head(rest) >> \o Tail(rest)

RECURSIVE LStrip(_)
LStrip(s) == IF s # <<>> /\ Head(s) = " " THEN LStrip(Tail(s)) ELSE s

RECURSIVE RStrip(_)
RStrip(s) == IF s # <<>> /\ s[Len(s)] = " "
             THEN RStrip(SubSeq(s, 1, Len(s) - 1)) ELSE s

\* o.strip()
Strip(s) == RStrip(LStrip(s))

\* org_list = [o.strip() for o in orgs.split(',')] if orgs else []
ParseOrgs(orgs) ==
    IF orgs # <<>>
    THEN LET parts == SplitComma(orgs)
         IN  [i \in 1..Len(parts) |-> Strip(parts[i])]
    ELSE <<>>

-----------------------------------------------------------------------------
(* Upstream *)

A == <<"a">>
B == <<"b">>
AB == <<"a", "-", "b">>
R1 == <<"r", "1">>

\* the login of the authenticated identity
Me == B

Logins == {A, B, AB}

\* The i-th repository name of an owner: r1, b-r1, r3, b-r3, ...
RepoName(i) == IF i % 2 = 1 THEN <<"r">> \o ToStr(i)
               ELSE <<"b", "-", "r">> \o ToStr(i - 1)

\* The repository list upstream holds for a login, in upstream order
UpstreamRepos(login) ==
    IF login \in DOMAIN gh.nrepos
    THEN [i \in 1..gh.nrepos[login] |-> [owner |-> login, name |-> RepoName(i)]]
    ELSE <<>>

\* One page of a list: items (page-1)*per_page+1 .. page*per_page
Page(list, p) == SubSeq(list, (p - 1) * per_page + 1, Min(p * per_page, Len(list)))

ErrorStatuses == {401, 403, 404, 500}

\* What an upstream request can come to: an answer, an HTTP error status
\* (raise_for_status raises httpx.HTTPStatusError), or a timeout / transport
\* failure (another exception).
Responses ==
    {[kind |-> "ok", status |-> 200]}
    \cup {[kind |-> "status", status |-> s] : s \in ErrorStatuses}
    \cup {[kind |-> "transport", status |-> 0]}

Request(ep, arg, p, r) ==
    [ep |-> ep, arg |-> arg, page |-> p, base |-> client.base_url,
     token |-> client.token, failed |-> r.kind # "ok", status |-> r.status]

-----------------------------------------------------------------------------
(* Tree nodes *)

NoMeta == <<>>

TreeNode(id, name, type, metadata, hasChildren, isLoaded, kids) ==
    [id |-> id, name |-> name, type |-> type, metadata |-> metadata,
     hasChildren |-> hasChildren, isLoaded |-> isLoaded, children |-> kids]

\* Variant: ids numbered apart after the first successful call
OrgNodeIdPerCall(org_name) ==
    S_org \o Dash \o org_name \o (IF prev.valid THEN <<"-", "2">> ELSE <<>>)

OrgNodeId(org_name) == S_org \o Dash \o org_name

RepoNodeId(owner, repo_name) == S_repo \o Dash \o owner \o Dash \o repo_name

\* Variant: hasChildren left at the model's default, False
RepoNodeNoChildrenFlag(repo) ==
    TreeNode(RepoNodeId(repo.owner, repo.name), repo.name, "repository",
             [owner |-> repo.owner], FALSE, FALSE, <<>>)

RepoNode(repo) ==
    TreeNode(RepoNodeId(repo.owner, repo.name), repo.name, "repository",
             [owner |-> repo.owner], TRUE, FALSE, <<>>)

\* Variant: hasChildren=True as on the repository nodes
OrgHasChildrenAlways(rs) == TRUE

OrgHasChildren(rs) == Len(rs) > 0

\* Variant: the children prepended, so that they end up last to first
build_org_tree_prepending(org_name, rs) ==
    TreeNode(OrgNodeId(org_name), org_name, "organization",
             [repo_count |-> Len(rs)], OrgHasChildren(rs), TRUE,
             [i \in 1..Len(rs) |-> RepoNode(rs[Len(rs) + 1 - i])])

build_org_tree_lightweight(org_name, rs) ==
    TreeNode(OrgNodeId(org_name), org_name, "organization",
             [repo_count |-> Len(rs)], OrgHasChildren(rs), TRUE,
             [i \in 1..Len(rs) |-> RepoNode(rs[i])])

-----------------------------------------------------------------------------
(* Repository detail: the six categories *)

Categories == <<"workflows", "workflow_runs", "runners", "branches",
                "pull_requests", "issues">>

CategorySet == {Categories[i] : i \in 1..Len(Categories)}

\* The numeric id upstream gives the i-th item of a list
ItemId(i) == 1000 - i

\* Whether the i-th item of a category's upstream answer carries the
\* "pull_request" key (only the issues endpoint returns such items)
Marked(c, i) ==
    /\ c = "issues"
    /\ \/ gh.marks = "all"
       \/ gh.marks = "odd" /\ i % 2 = 1
       \/ gh.marks = "first" /\ i = 1

\* The list upstream answers for a category of the requested repository
UpstreamItems(c) ==
    [i \in 1..gh.items[c] |->
        [id |-> ItemId(i), number |-> i, name |-> <<"n">> \o ToStr(i),
         pull_request |-> Marked(c, i)]]

NotPullRequest(issue) == ~issue.pull_request

\* Variant: the answer passed on as it came
get_issues_unfiltered(issues) == issues

\* return [issue for issue in issues if "pull_request" not in issue]
get_issues(issues) == SelectSeq(issues, NotPullRequest)

\* What the client method of a category returns for an answered request
Fetched(c) == IF c = "issues" THEN get_issues(UpstreamItems(c)) ELSE UpstreamItems(c)

Cap(c) ==
    CASE c = "workflows" -> workflows_cap
      [] c = "workflow_runs" -> runs_cap
      [] c = "branches" -> branches_cap
      [] c = "pull_requests" -> prs_cap
      [] c = "issues" -> issues_cap

\* Variant: the slice taken from the end of the list
ShownLast(c, items) ==
    IF c = "runners" THEN items
    ELSE SubSeq(items, Len(items) - Min(Len(items), Cap(c)) + 1, Len(items))

\* workflows[:20], workflow_runs[:10], runners, branches[:20], ...
Shown(c, items) ==
    IF c = "runners" THEN items ELSE SubSeq(items, 1, Min(Len(items), Cap(c)))

ContainerPrefix(c) ==
    CASE c = "workflows" -> <<"w", "o", "r", "k", "f", "l", "o", "w", "s">>
      [] c = "workflow_runs" -> <<"r", "u", "n", "s">>
      [] c = "runners" -> <<"r", "u", "n", "n", "e", "r", "s">>
      [] c = "branches" -> <<"b", "r", "a", "n", "c", "h", "e", "s">>
      [] c = "pull_requests" -> <<"p", "r", "s">>
      [] c = "issues" -> <<"i", "s", "s", "u", "e", "s">>

ContainerId(c, owner, repo_name) ==
    ContainerPrefix(c) \o Dash \o owner \o Dash \o repo_name

Label(c) ==
    CASE c = "workflows" -> <<"W", "o", "r", "k", "f", "l", "o", "w", "s">>
      [] c = "workflow_runs" -> <<"R", "e", "c", "e", "n", "t", " ", "R", "u", "n", "s">>
      [] c = "runners" -> <<"R", "u", "n", "n", "e", "r", "s">>
      [] c = "branches" -> <<"B", "r", "a", "n", "c", "h", "e", "s">>
      [] c = "pull_requests" -> <<"P", "u", "l", "l", " ", "R", "e", "q", "u", "e", "s", "t", "s">>
      [] c = "issues" -> <<"I", "s", "s", "u", "e", "s">>

\* f"Workflows ({len(workflows)})"
ContainerName(c, n) == Label(c) \o <<" ", "(">> \o ToStr(n) \o <<")">>

LeafType(c) ==
    CASE c = "workflows" -> "workflow"
      [] c = "workflow_runs" -> "workflow_run"
      [] c = "runners" -> "runner"
      [] c = "branches" -> "branch"
      [] c = "pull_requests" -> "pull_request"
      [] c = "issues" -> "issue"

LeafPrefix(c) ==
    CASE c = "workflows" -> <<"w", "o", "r", "k", "f", "l", "o", "w">>
      [] c = "workflow_runs" -> <<"r", "u", "n">>
      [] c = "runners" -> <<"r", "u", "n", "n", "e", "r">>
      [] c = "branches" -> <<"b", "r", "a", "n", "c", "h">>
      [] c = "pull_requests" -> <<"p", "r">>
      [] c = "issues" -> <<"i", "s", "s", "u", "e">>

\* f"workflow-{workflow['id']}", ..., f"branch-{owner}-{repo_name}-{branch['name']}"
LeafId(c, owner, repo_name, item) ==
    IF c = "branches"
    THEN LeafPrefix(c) \o Dash \o owner \o Dash \o repo_name \o Dash \o item.name
    ELSE LeafPrefix(c) \o Dash \o ToStr(item.id)

\* workflow["name"], f"{run['name']} #{run['run_number']}", f"#{pr['number']} {pr['title']}"
LeafName(c, item) ==
    CASE c \in {"workflows", "runners", "branches"} -> item.name
      [] c = "workflow_runs" -> item.name \o <<" ", "#">> \o ToStr(item.number)
      [] c \in {"pull_requests", "issues"} ->
            <<"#">> \o ToStr(item.number) \o <<" ">> \o item.name

\* Variant: isLoaded left at the model's default, False
LeafNodeNotLoaded(c, owner, repo_name, item) ==
    TreeNode(LeafId(c, owner, repo_name, item), LeafName(c, item), LeafType(c),
             NoMeta, FALSE, FALSE, <<>>)

LeafNode(c, owner, repo_name, item) ==
    TreeNode(LeafId(c, owner, repo_name, item), LeafName(c, item), LeafType(c),
             NoMeta, FALSE, TRUE, <<>>)

\* Variant: the name counts the children attached
ContainerCountingChildren(c, owner, repo_name, items) ==
    LET shown == Shown(c, items)
    IN  TreeNode(ContainerId(c, owner, repo_name), ContainerName(c, Len(shown)), c,
                 NoMeta, Len(shown) > 0, TRUE,
                 [i \in 1..Len(shown) |-> LeafNode(c, owner, repo_name, shown[i])])

\* One container of build_repo_details, built from the fetched list
Container(c, owner, repo_name, items) ==
    LET shown == Shown(c, items)
    IN  TreeNode(ContainerId(c, owner, repo_name), ContainerName(c, Len(items)), c,
                 NoMeta, Len(items) > 0, TRUE,
                 [i \in 1..Len(shown) |-> LeafNode(c, owner, repo_name, shown[i])])

\* Variant: the container appended whether or not the list is empty
WithContainerAlways(kids, c, owner, repo_name, items) ==
    Append(kids, Container(c, owner, repo_name, items))

\* if workflows: ... children.append(workflows_node)
WithContainer(kids, c, owner, repo_name, items) ==
    IF items # <<>> THEN Append(kids, Container(c, owner, repo_name, items)) ELSE kids

-----------------------------------------------------------------------------
(* Outcomes of a call *)

NoOutcome == [status |-> 0, detail |-> "", body |-> <<>>]

Returned(body) == [status |-> 200, detail |-> "", body |-> body]

TokenRequired == [status |-> 401, detail |-> "GitHub token is required", body |-> <<>>]

\* Variant: every status passed on by the generic branch
ClassifyGeneric(r) ==
    IF r.kind = "status"
    THEN [status |-> r.status, detail |-> "upstream status", body |-> <<>>]
    ELSE [status |-> 500, detail |-> "exception", body |-> <<>>]

\* except httpx.HTTPStatusError / except Exception of the handlers
Classify(r) ==
    IF r.kind = "status"
    THEN IF r.status = 401
         THEN [status |-> 401, detail |-> "Invalid GitHub token", body |-> <<>>]
         ELSE IF r.status = 403
         THEN [status |-> 403, detail |-> "GitHub API rate limit exceeded", body |-> <<>>]
         ELSE [status |-> r.status, detail |-> "upstream status", body |-> <<>>]
    ELSE [status |-> 500, detail |-> "exception", body |-> <<>>]

NoClient == [state |-> "none", token |-> "", base_url |-> ""]

\* Variant: an anonymous credential stands in when none is available
ResolveTokenAnonymous(x_github_token) ==
    IF x_github_token # "" THEN x_github_token
    ELSE IF settings.github_token # "" THEN settings.github_token
    ELSE "anonymous"

\* token = x_github_token or (settings.github_token if settings.github_token else None)
ResolveToken(x_github_token) ==
    IF x_github_token # "" THEN x_github_token ELSE settings.github_token

\* Variant: the header handed to the client as it came
ResolveApiUrlPassThrough(x_github_api_url) == x_github_api_url

\* api_url = x_github_api_url or "https://api.github.com"
ResolveApiUrl(x_github_api_url) ==
    IF x_github_api_url # "" THEN x_github_api_url ELSE DefaultApiUrl

\* GitHubClient.__init__
GitHubClient(token, api_url) ==
    [state |-> "open",
     token |-> IF token # "" THEN token ELSE settings.github_token,
     base_url |-> IF api_url # "" THEN api_url
                  ELSE IF settings.github_api_url # "" THEN settings.github_api_url
                  ELSE DefaultApiUrl]

NoCall == [op |-> "none", orgs |-> <<>>, owner |-> <<>>, repo |-> <<>>,
           x_github_token |-> "", x_github_api_url |-> ""]

-----------------------------------------------------------------------------
(* Inputs and initial states *)

OrgsParams ==
    { <<>>,                                   \* no filter
      A,                                      \* "a"
      B,                                      \* "b"
      <<"a", ",", "a", "-", "b">>,            \* "a,a-b"
      <<"a", "-", "b", ",", " ", "a">>,       \* "a-b, a"
      <<"a", ",", "a">>,                      \* "a,a"
      <<"a", ",">> }                          \* "a,"

SettingsSet ==
    { [github_token |-> "", github_org |-> <<>>, github_api_url |-> DefaultApiUrl],
      [github_token |-> "ts", github_org |-> <<>>, github_api_url |-> "https://cfg.example/api"],
      [github_token |-> "ts", github_org |-> AB, github_api_url |-> DefaultApiUrl],
      [github_token |-> "", github_org |-> AB, github_api_url |-> "https://cfg.example/api"] }

NoItems == [c \in CategorySet |-> 0]

\* Upstream data sets in which one login holds a full page of repositories,
\* and a full page and one more
PagedWorlds ==
    { [orgs |-> <<A, AB>>, nrepos |-> [l \in Logins |-> IF l = AB THEN n ELSE 1],
       items |-> NoItems, marks |-> "none", faults |-> 0, unread |-> 0] :
      n \in {per_page, per_page + 1} }

\* Upstream data sets that vary the organizations and repositories
TreeWorlds ==
    { [orgs |-> os, nrepos |-> [l \in Logins |-> IF l = A THEN na
                                               ELSE IF l = B THEN nb ELSE 1],
       items |-> NoItems, marks |-> "none", faults |-> 0, unread |-> 0] :
      os \in {<<>>, <<A, AB>>}, na \in 0..MaxRepos, nb \in 0..MaxRepos }
    \cup PagedWorlds

\* Which categories of the requested repository hold items upstream
Masks ==
    { {},
      CategorySet,
      {"branches"},
      {"workflows"},
      {"workflow_runs", "runners", "issues"},
      {"pull_requests", "issues"} }

\* How many items a non-empty category holds: one, exactly the cap, more
Profiles == {"one", "cap", "over"}

ItemCount(c, profile) ==
    CASE profile = "one" -> 1
      [] profile = "cap" -> IF c = "runners" THEN workflows_cap ELSE Cap(c)
      [] profile = "over" -> MaxItems

\* Upstream data sets that vary the sub-resources of the requested repository
DetailWorlds ==
    { [orgs |-> <<>>, nrepos |-> [l \in Logins |-> 0],
       items |-> [c \in CategorySet |-> IF c \in mask THEN ItemCount(c, pr) ELSE 0],
       marks |-> mk, faults |-> 1, unread |-> 0] :
      mask \in Masks, pr \in Profiles,
      mk \in {"none", "first", "odd", "all"} }

\* Upstream data sets in which any number of the category requests fail
FaultWorlds ==
    { [orgs |-> <<>>, nrepos |-> [l \in Logins |-> 0],
       items |-> [c \in CategorySet |-> IF c \in mask THEN 1 ELSE 0],
       marks |-> "none", faults |-> MaxFaults, unread |-> 0] :
      mask \in {CategorySet, {"workflow_runs", "runners", "issues"}} }

\* The repositories get_repo_details is asked about
RepoParams == {<<A, R1>>, <<AB, R1>>}

NoPrev == [valid |-> FALSE, key |-> <<>>, ids |-> <<>>]

\* The data sets under which two calls are compared
RepeatWorlds == {w \in TreeWorlds : w.orgs # <<>> /\ w.nrepos[A] = MaxRepos /\ w.nrepos[B] > 0}

(* ConfigManager (config_manager.py) *)

\* Optional[...] values: <<>> is None, <<v>> a value
None == <<>>

Some(v) == <<v>>

\* class GitHubConfig, UIConfig, AppConfig: the defaults
AppConfig ==
    [github |-> [token |-> None, api_url |-> DefaultApiUrl, organization |-> None],
     watched_repos |-> <<>>,
     enabled_repos |-> <<>>,
     ui |-> [theme |-> "light", language |-> "en",
             window_size |-> None, window_position |-> None],
     auto_refresh_interval |-> DefaultAutoRefresh,
     notifications_refresh_interval |-> DefaultNotificationsRefresh,
     max_repos_per_org |-> DefaultMaxReposPerOrg]

\* The top-level keys of the record model_dump() produces
Keys == DOMAIN AppConfig

\* WatchedRepo(owner=owner, repo=repo, notifications=notifications)
WatchedRepo(owner, repo, notifications) ==
    [owner |-> owner, repo |-> repo, notifications |-> notifications,
     last_checked |-> None]

\* EnabledRepo(node_id=repo['node_id'], enabled=repo['enabled'])
EnabledRepo(repo) == [node_id |-> repo.node_id, enabled |-> repo.enabled]

\* The files: the manager's config.json and another path a caller may name
ConfigFile == "config.json"

OtherFile == "export.json"

Paths == {ConfigFile, OtherFile}

\* A file that does not exist, a file that is no JSON record of the
\* configuration, a file holding the JSON record with the keys `keys`
Absent == [kind |-> "absent", keys |-> {}, val |-> AppConfig]

Unreadable == [kind |-> "unreadable", keys |-> {}, val |-> AppConfig]

Document(keys, val) ==
    [kind |-> "json", keys |-> keys,
     val |-> [k \in Keys |-> IF k \in keys THEN val[k] ELSE AppConfig[k]]]

\* json.dump(self._config.model_dump(), f, ...): every key of the model
model_dump(config) == Document(Keys, config)

\* AppConfig(**data): the keys the data holds, defaults for the others
Parse(file) == [k \in Keys |-> IF k \in file.keys THEN file.val[k] ELSE AppConfig[k]]

\* How a write ends: done, refused (PermissionError: the file is as it was),
\* or broken off after the file was truncated (OSError)
WriteResults == {"ok", "denied", "torn"}

AfterWrite(old, new, w) ==
    CASE w = "ok" -> new
      [] w = "denied" -> old
      [] w = "torn" -> Unreadable

\* Variant: the keys already in the file are updated, no key is added
WrittenMerged(config, old) ==
    IF old.kind = "json" THEN Document(old.keys, config) ELSE model_dump(config)

\* save_config: open(self._config_file, 'w'); json.dump(model_dump())
Written(config, old) == model_dump(config)

\* Variant: the credentials are left out of the exported record
ExportedWithoutGithub(config) == Document(Keys \ {"github"}, config)

\* export_config: json.dump(config.model_dump(), f, ...)
Exported(config) == model_dump(config)

\* What is recorded of the calls made so far
NoHist ==
    [last |-> [op |-> "none", path |-> "", ok |-> TRUE],
     clean |-> TRUE, mutations |-> 0, nops |-> 0, wfaults |-> 0,
     snap |-> [p \in Paths |-> None],
     between |-> [p \in Paths |-> FALSE],
     auth |-> [state |-> "start", token |-> ""],
     cli |-> None]

\* No GITHUB_* variable set and no .env file
NoEnvironment ==
    [environ |-> [GITHUB_TOKEN |-> None, GITHUB_ORG |-> None, GITHUB_API_URL |-> None],
     dotenv |-> [GITHUB_TOKEN |-> None, GITHUB_ORG |-> None]]

InitManager ==
    /\ cm_config = None
    /\ files = [p \in Paths |-> Absent]
    /\ hist = NoHist
    /\ environment = NoEnvironment

\* A configuration a user has saved before
SavedConfig ==
    [AppConfig EXCEPT
        !.github = [token |-> Some("t0"), api_url |-> "https://ghe.example/api/v3",
                    organization |-> Some(AB)],
        !.watched_repos = <<WatchedRepo("a", "r1", TRUE)>>,
        !.ui = [theme |-> "dark", language |-> "en",
                window_size |-> None, window_position |-> None]]

\* A configuration written by hand, with intervals of its own
ForeignConfig ==
    [AppConfig EXCEPT
        !.auto_refresh_interval = DefaultAutoRefresh + 1,
        !.notifications_refresh_interval = DefaultNotificationsRefresh + 1,
        !.enabled_repos = <<[node_id |-> "org-a", enabled |-> FALSE]>>]

\* What config.json holds when the manager starts
InitialConfigFiles ==
    {Absent, Unreadable, model_dump(SavedConfig), Document({"github"}, SavedConfig)}

\* What the other path holds when the manager starts
InitialOtherFiles == {Absent, Document(Keys \ {"ui"}, ForeignConfig)}

\* What a ConfigManager method leaves alone
served == <<gh, track, call, pc, client, requests, orgs_to_fetch, idx,
            repos, page, scope, personal_repos, fetched, tree_nodes, children,
            outcome, prev, environment, total_count>>

http == <<settings, served>>

\* A write may fail while the budget of failing writes lasts
MayWrite(w) == w \in WriteResults /\ (w # "ok" => hist.wfaults < MaxWriteFaults)

\* load_config: the configuration in memory after it
Loaded ==
    IF files[ConfigFile].kind = "json" THEN Parse(files[ConfigFile]) ELSE AppConfig

\* load_config, w the end of the save it makes when the file does not
\* exist: the configuration, config.json after it, whether it raised
LoadOf(file, w) ==
    IF file.kind = "absent"
    THEN [config |-> AppConfig,
          file |-> AfterWrite(file, Written(AppConfig, file), w),
          raised |-> w # "ok", wrote |-> TRUE]
    ELSE [config |-> IF file.kind = "json" THEN Parse(file) ELSE AppConfig,
          file |-> file, raised |-> FALSE, wrote |-> FALSE]

\* load_config on config.json as it is
Load(w) == LoadOf(files[ConfigFile], w)

\* get_config: the configuration in memory, or load_config
Get(w) ==
    IF cm_config # None
    THEN [config |-> cm_config[1], file |-> files[ConfigFile], raised |-> FALSE,
          wrote |-> FALSE]
    ELSE Load(w)

Faults(g, w1, saved, w2) ==
    (IF g.wrote /\ w1 # "ok" THEN 1 ELSE 0) + (IF saved /\ w2 # "ok" THEN 1 ELSE 0)

Record(op, path, ok, mutation, faults, snap) ==
    [last |-> [op |-> op, path |-> path, ok |-> ok],
     clean |-> hist.clean /\ ok,
     mutations |-> IF mutation /\ ok THEN Min(hist.mutations + 1, 1) ELSE hist.mutations,
     nops |-> hist.nops + 1,
     wfaults |-> hist.wfaults + faults,
     snap |-> snap,
     between |-> [p \in Paths |->
                    IF op = "export_config" /\ p = path THEN ~ok /\ hist.between[p]
                    ELSE IF op # "import_config" /\ mutation /\ ok THEN TRUE
                    ELSE hist.between[p]],
     auth |-> hist.auth,
     cli |-> hist.cli]

\* The write results a call may meet: w1 for the save load_config makes
\* (only when config.json does not exist), w2 for the call's own write
Attempt(w1, w2) ==
    LET g == Get(w1)
    IN  /\ hist.wfaults + Faults(g, w1, ~g.raised, w2) <= MaxWriteFaults
        /\ g.wrote \/ w1 = "ok"
        /\ g.raised => w2 = "ok"

\* config = self.get_config(); <change config>; self.save_config():
\* the manager, the files and the record of calls after it, `changed` being
\* the configuration get_config returned with the change made
Mutation(changed, w1, w2) ==
    LET g == Get(w1)
    IN  IF g.raised
        THEN [cm_config |-> Some(g.config),
              files |-> [files EXCEPT ![ConfigFile] = g.file],
              hist |-> Record("update", "", FALSE, TRUE,
                              Faults(g, w1, FALSE, w2), hist.snap)]
        ELSE [cm_config |-> Some(changed),
              files |-> [files EXCEPT ![ConfigFile] =
                           AfterWrite(g.file, Written(changed, g.file), w2)],
              hist |-> Record("update", "", w2 = "ok", TRUE,
                              Faults(g, w1, TRUE, w2), hist.snap)]

get_config ==
    /\ hist.nops < MaxOps
    /\ \E w1 \in WriteResults :
        LET g == Get(w1)
        IN  /\ hist.wfaults + Faults(g, w1, FALSE, "ok") <= MaxWriteFaults
            /\ g.wrote \/ w1 = "ok"
            /\ cm_config' = Some(g.config)
            /\ files' = [files EXCEPT ![ConfigFile] = g.file]
            /\ hist' = Record("get_config", "", ~g.raised, FALSE,
                              Faults(g, w1, FALSE, "ok"), hist.snap)
    /\ UNCHANGED http

update_github_token(token) ==
    LET Change(c) == [c EXCEPT !.github.token = Some(token)]
    IN  /\ hist.nops < MaxOps
        /\ \E w1, w2 \in WriteResults :
            /\ Attempt(w1, w2)
            /\ cm_config' = Mutation(Change(Get(w1).config), w1, w2).cm_config
            /\ files' = Mutation(Change(Get(w1).config), w1, w2).files
            /\ hist' = Mutation(Change(Get(w1).config), w1, w2).hist
        /\ UNCHANGED http

update_github_api_url(api_url) ==
    LET Change(c) == [c EXCEPT !.github.api_url = api_url]
    IN  /\ hist.nops < MaxOps
        /\ \E w1, w2 \in WriteResults :
            /\ Attempt(w1, w2)
            /\ cm_config' = Mutation(Change(Get(w1).config), w1, w2).cm_config
            /\ files' = Mutation(Change(Get(w1).config), w1, w2).files
            /\ hist' = Mutation(Change(Get(w1).config), w1, w2).hist
        /\ UNCHANGED http

update_github_organization(organization) ==
    LET Change(c) == [c EXCEPT !.github.organization = organization]
    IN  /\ hist.nops < MaxOps
        /\ \E w1, w2 \in WriteResults :
            /\ Attempt(w1, w2)
            /\ cm_config' = Mutation(Change(Get(w1).config), w1, w2).cm_config
            /\ files' = Mutation(Change(Get(w1).config), w1, w2).files
            /\ hist' = Mutation(Change(Get(w1).config), w1, w2).hist
        /\ UNCHANGED http

IsWatched(c, owner, repo) ==
    \E i \in 1..Len(c.watched_repos) :
        c.watched_repos[i].owner = owner /\ c.watched_repos[i].repo = repo

\* Variant: the new entry is appended without looking for the pair
WatchedAppending(c, owner, repo, notifications) ==
    Append(c.watched_repos, WatchedRepo(owner, repo, notifications))

\* for watched in config.watched_repos: the first entry of owner/repo gets
\* the flag and the method returns; else a new entry is appended
Watched(c, owner, repo, notifications) ==
    LET first == CHOOSE i \in 1..Len(c.watched_repos) :
                    /\ c.watched_repos[i].owner = owner
                    /\ c.watched_repos[i].repo = repo
                    /\ \A j \in 1..(i - 1) :
                          ~(c.watched_repos[j].owner = owner
                            /\ c.watched_repos[j].repo = repo)
    IN  IF IsWatched(c, owner, repo)
        THEN [c.watched_repos EXCEPT ![first].notifications = notifications]
        ELSE Append(c.watched_repos, WatchedRepo(owner, repo, notifications))

add_watched_repo(owner, repo, notifications) ==
    LET Change(c) ==
            [c EXCEPT !.watched_repos = Watched(c, owner, repo, notifications)]
    IN  /\ hist.nops < MaxOps
        /\ \E w1, w2 \in WriteResults :
            /\ Attempt(w1, w2)
            /\ cm_config' = Mutation(Change(Get(w1).config), w1, w2).cm_config
            /\ files' = Mutation(Change(Get(w1).config), w1, w2).files
            /\ hist' = Mutation(Change(Get(w1).config), w1, w2).hist
        /\ UNCHANGED http

remove_watched_repo(owner, repo) ==
    LET Keep(r) == ~(r.owner = owner /\ r.repo = repo)
        Change(c) == [c EXCEPT !.watched_repos = SelectSeq(@, Keep)]
    IN  /\ hist.nops < MaxOps
        /\ \E w1, w2 \in WriteResults :
            /\ Attempt(w1, w2)
            /\ cm_config' = Mutation(Change(Get(w1).config), w1, w2).cm_config
            /\ files' = Mutation(Change(Get(w1).config), w1, w2).files
            /\ hist' = Mutation(Change(Get(w1).config), w1, w2).hist
        /\ UNCHANGED http

update_enabled_repos(enabled_repos) ==
    LET Change(c) ==
            [c EXCEPT !.enabled_repos =
                [i \in 1..Len(enabled_repos) |-> EnabledRepo(enabled_repos[i])]]
    IN  /\ hist.nops < MaxOps
        /\ \E w1, w2 \in WriteResults :
            /\ Attempt(w1, w2)
            /\ cm_config' = Mutation(Change(Get(w1).config), w1, w2).cm_config
            /\ files' = Mutation(Change(Get(w1).config), w1, w2).files
            /\ hist' = Mutation(Change(Get(w1).config), w1, w2).hist
        /\ UNCHANGED http

update_ui_theme(theme) ==
    LET Change(c) == [c EXCEPT !.ui.theme = theme]
    IN  /\ hist.nops < MaxOps
        /\ \E w1, w2 \in WriteResults :
            /\ Attempt(w1, w2)
            /\ cm_config' = Mutation(Change(Get(w1).config), w1, w2).cm_config
            /\ files' = Mutation(Change(Get(w1).config), w1, w2).files
            /\ hist' = Mutation(Change(Get(w1).config), w1, w2).hist
        /\ UNCHANGED http

\* if size: config.ui.window_size = size; if position: ...
update_window_settings(size, position) ==
    LET Change(c) ==
            [c EXCEPT !.ui.window_size = IF size # None THEN size ELSE @,
                      !.ui.window_position = IF position # None THEN position ELSE @]
    IN  /\ hist.nops < MaxOps
        /\ \E w1, w2 \in WriteResults :
            /\ Attempt(w1, w2)
            /\ cm_config' = Mutation(Change(Get(w1).config), w1, w2).cm_config
            /\ files' = Mutation(Change(Get(w1).config), w1, w2).files
            /\ hist' = Mutation(Change(Get(w1).config), w1, w2).hist
        /\ UNCHANGED http

\* self._config = AppConfig(); self.save_config()
reset_config ==
    /\ hist.nops < MaxOps
    /\ \E w \in WriteResults :
        /\ MayWrite(w)
        /\ cm_config' = Some(AppConfig)
        /\ files' = [files EXCEPT ![ConfigFile] =
                        AfterWrite(@, Written(AppConfig, @), w)]
        /\ hist' = Record("reset_config", "", w = "ok", TRUE,
                          IF w = "ok" THEN 0 ELSE 1, hist.snap)
    /\ UNCHANGED http

\* config = self.get_config(); open(export_path, 'w'); json.dump(...)
export_config(export_path) ==
    /\ hist.nops < MaxOps
    /\ \E w1, w2 \in WriteResults :
        LET g == Get(w1)
            mine == [files EXCEPT ![ConfigFile] = g.file]
        IN  /\ hist.wfaults + Faults(g, w1, ~g.raised, w2) <= MaxWriteFaults
            /\ g.wrote \/ w1 = "ok"
            /\ g.raised => w2 = "ok"
            /\ cm_config' = Some(g.config)
            /\ IF g.raised
               THEN /\ files' = mine
                    /\ hist' = Record("export_config", export_path, FALSE, FALSE,
                                      Faults(g, w1, FALSE, w2), hist.snap)
               ELSE /\ files' = [mine EXCEPT ![export_path] =
                                    AfterWrite(@, Exported(g.config), w2)]
                    /\ hist' = Record("export_config", export_path, w2 = "ok", FALSE,
                                      Faults(g, w1, TRUE, w2),
                                      [hist.snap EXCEPT ![export_path] =
                                          IF w2 = "ok" THEN Some(g.config)
                                          ELSE IF w2 = "torn" THEN None ELSE @])
    /\ UNCHANGED http

\* data = json.load(f); self._config = AppConfig(**data); self.save_config()
import_config(import_path) ==
    /\ hist.nops < MaxOps
    /\ IF files[import_path].kind # "json"
       THEN /\ hist' = Record("import_config", import_path, FALSE, TRUE, 0, hist.snap)
            /\ UNCHANGED <<cm_config, files>>
       ELSE \E w \in WriteResults :
            /\ MayWrite(w)
            /\ cm_config' = Some(Parse(files[import_path]))
            /\ files' = [files EXCEPT ![ConfigFile] =
                            AfterWrite(@, Written(Parse(files[import_path]), @), w)]
            /\ hist' = Record("import_config", import_path, w = "ok", TRUE,
                              IF w = "ok" THEN 0 ELSE 1, hist.snap)
    /\ UNCHANGED http

(* load_settings (config.py) *)

\* Python's `a or b` over values that are None or non-empty
Or(a, b) == IF a # None THEN a ELSE b

\* Settings(_env_file=env_path): a variable of the process wins over the
\* .env file
EnvSettings ==
    [github_token |-> Or(environment.environ.GITHUB_TOKEN, environment.dotenv.GITHUB_TOKEN),
     github_org |-> Or(environment.environ.GITHUB_ORG, environment.dotenv.GITHUB_ORG)]

\* final_token, final_org, final_api_url and the Settings built of them
FinalSettings(app_config) ==
    LET final_token == Or(environment.environ.GITHUB_TOKEN,
                          Or(EnvSettings.github_token, app_config.github.token))
        final_org == Or(environment.environ.GITHUB_ORG,
                        Or(EnvSettings.github_org, app_config.github.organization))
        final_api_url == Or(environment.environ.GITHUB_API_URL,
                            Some(app_config.github.api_url))
    IN  [github_token |-> IF final_token = None THEN "" ELSE final_token[1],
         github_org |-> IF final_org = None THEN <<>> ELSE final_org[1],
         github_api_url |-> final_api_url[1]]

\* class Settings: the defaults, before load_settings has run
DefaultSettings ==
    [github_token |-> "", github_org |-> <<>>, github_api_url |-> DefaultApiUrl]

\* settings = load_settings(): config_manager.load_config() reads config.json
\* anew; a failed save of the default configuration leaves settings as it was
load_settings ==
    /\ hist.nops < MaxOps
    /\ \E w \in WriteResults :
        LET l == Load(w)
            faults == IF l.wrote /\ w # "ok" THEN 1 ELSE 0
        IN  /\ l.wrote \/ w = "ok"
            /\ hist.wfaults + faults <= MaxWriteFaults
            /\ cm_config' = Some(l.config)
            /\ files' = [files EXCEPT ![ConfigFile] = l.file]
            /\ settings' = IF l.raised THEN settings ELSE FinalSettings(l.config)
            /\ hist' = Record("load_settings", "", ~l.raised, FALSE, faults, hist.snap)
    /\ UNCHANGED served

(* The configuration endpoints (server.py) *)

\* The manager and config.json as a handler finds them; `writes` holds the
\* results of the writes the handler has made
Manager ==
    [cm_config |-> cm_config, file |-> files[ConfigFile], raised |-> FALSE,
     writes |-> <<>>]

\* config.github.<field> = value
Changed(c, field, value) ==
    CASE field = "token" -> [c EXCEPT !.github.token = value]
      [] field = "api_url" -> [c EXCEPT !.github.api_url = value[1]]
      [] field = "organization" -> [c EXCEPT !.github.organization = value]

\* if config_update.<field> is not None: config_manager.update_github_<field>(...)
\* get_config, the change, save_config; w0 ends the save load_config makes,
\* w the save of the method; nothing runs after a method has raised
Applied(m, field, value, w0, w) ==
    IF m.raised \/ value = None THEN m
    ELSE LET g == IF m.cm_config # None
                  THEN [config |-> m.cm_config[1], file |-> m.file,
                        raised |-> FALSE, wrote |-> FALSE]
                  ELSE LoadOf(m.file, w0)
             loaded == IF g.wrote THEN Append(m.writes, w0) ELSE m.writes
             changed == Changed(g.config, field, value)
         IN  IF g.raised
             THEN [cm_config |-> Some(g.config), file |-> g.file, raised |-> TRUE,
                   writes |-> loaded]
             ELSE [cm_config |-> Some(changed),
                   file |-> AfterWrite(g.file, Written(changed, g.file), w),
                   raised |-> w # "ok",
                   writes |-> Append(loaded, w)]

\* self._config = AppConfig(); self.save_config()
Reset(m, w) ==
    [cm_config |-> Some(AppConfig),
     file |-> AfterWrite(m.file, Written(AppConfig, m.file), w),
     raised |-> w # "ok",
     writes |-> Append(m.writes, w)]

\* load_settings(): config_manager.load_config() reads config.json anew
Reloaded(m, w0) ==
    IF m.raised THEN m
    ELSE LET l == LoadOf(m.file, w0)
         IN  [cm_config |-> Some(l.config), file |-> l.file, raised |-> l.raised,
              writes |-> IF l.wrote THEN Append(m.writes, w0) ELSE m.writes]

\* The failed writes of a handler
Failed(m) == Cardinality({k \in 1..Len(m.writes) : m.writes[k] # "ok"})

\* How the writes of a handler end: all done, or the one at position `at`
\* fails (the exception ends the handler, no write follows it); position 0
\* is the save load_config makes when config.json does not exist
WriteFailures ==
    {[at |-> -1, how |-> "ok"]}
    \cup {[at |-> k, how |-> w] : k \in 0..3, w \in WriteResults \ {"ok"}}

ResultAt(f, k) == IF f.at = k THEN f.how ELSE "ok"

\* The handler met the failure it was given, within the budget of failing
\* writes
Met(m, f) ==
    /\ hist.wfaults + Failed(m) <= MaxWriteFaults
    /\ (f.at # -1) = (Failed(m) = 1)

\* Variant: the handler leaves the settings of the process as they were
SettingsKept(m) == settings

\* global settings; settings = load_settings(), unless the handler raised
\* before the assignment
SettingsAfter(m) == IF m.raised THEN settings ELSE FinalSettings(m.cm_config[1])

\* The token the configuration endpoints last put in place
Authenticated(m, token) ==
    IF m.raised THEN hist.auth
    ELSE IF token # None THEN [state |-> "stored", token |-> token[1]]
    ELSE hist.auth

\* POST /api/config/github: server.py 437-466; an exception of any step is
\* answered with status 500
update_github_config(token, api_url, organization) ==
    /\ hist.nops < MaxOps
    /\ \E f \in WriteFailures :
        LET m1 == Applied(Manager, "token", token, ResultAt(f, 0), ResultAt(f, 1))
            m2 == Applied(m1, "api_url", api_url, ResultAt(f, 0), ResultAt(f, 2))
            m3 == Applied(m2, "organization", organization,
                          ResultAt(f, 0), ResultAt(f, 3))
            m == Reloaded(m3, ResultAt(f, 0))
        IN  /\ Met(m, f)
            /\ cm_config' = m.cm_config
            /\ files' = [files EXCEPT ![ConfigFile] = m.file]
            /\ settings' = SettingsAfter(m)
            /\ hist' = [Record("update_github_config", "", ~m.raised, TRUE,
                               Failed(m), hist.snap)
                        EXCEPT !.auth = Authenticated(m, token)]
    /\ UNCHANGED served

\* POST /api/config/reset: server.py 518-529
reset_configuration ==
    /\ hist.nops < MaxOps
    /\ \E f \in {g \in WriteFailures : g.at \in {-1, 1}} :
        LET m == Reloaded(Reset(Manager, ResultAt(f, 1)), ResultAt(f, 0))
        IN  /\ Met(m, f)
            /\ cm_config' = m.cm_config
            /\ files' = [files EXCEPT ![ConfigFile] = m.file]
            /\ settings' = SettingsAfter(m)
            /\ hist' = [Record("reset_configuration", "", ~m.raised, TRUE,
                               Failed(m), hist.snap)
                        EXCEPT !.auth = IF m.raised THEN @
                                        ELSE [state |-> "reset", token |-> @.token]]
    /\ UNCHANGED served

(* The config CLI (config_cli.py) *)

\* config_manager = get_config_manager() in a process of its own: nothing
\* in memory yet, the config.json of the server
CliManager ==
    [cm_config |-> None, file |-> files[ConfigFile], raised |-> FALSE,
     writes |-> <<>>]

\* config_cli.py set-token <token>: config_manager.update_github_token(token);
\* the process ends, the manager of the server is not touched
set_token(token) ==
    /\ hist.nops < MaxOps
    /\ \E f \in {g \in WriteFailures : g.at \in {-1, 0, 1}} :
        LET m == Applied(CliManager, "token", Some(token),
                         ResultAt(f, 0), ResultAt(f, 1))
        IN  /\ Met(m, f)
            /\ files' = [files EXCEPT ![ConfigFile] = m.file]
            /\ hist' = [Record("set-token", "", ~m.raised, TRUE, Failed(m), hist.snap)
                        EXCEPT !.cli = IF m.raised THEN @ ELSE Some(token)]
    /\ UNCHANGED <<cm_config, http>>

InitCall ==
    /\ call = NoCall
    /\ pc = "idle"
    /\ client = NoClient
    /\ requests = <<>>
    /\ orgs_to_fetch = <<>>
    /\ idx = 1
    /\ repos = <<>>
    /\ page = 1
    /\ scope = "org"
    /\ personal_repos = <<>>
    /\ fetched = <<>>
    /\ tree_nodes = <<>>
    /\ children = <<>>
    /\ outcome = NoOutcome
    /\ prev = NoPrev
    /\ total_count = 0

InitTree ==
    /\ settings \in SettingsSet
    /\ gh \in TreeWorlds
    /\ track = FALSE
    /\ InitCall
    /\ InitManager

InitDetails ==
    /\ settings \in {st \in SettingsSet : st.github_token # "" /\ st.github_org = <<>>}
    /\ gh \in {w \in DetailWorlds : w.items["issues"] = 0 => w.marks = "none"}
    /\ track = FALSE
    /\ InitCall
    /\ InitManager

InitRepeat ==
    /\ settings \in {st \in SettingsSet : st.github_token # "" /\ st.github_org = <<>>}
    /\ gh \in RepeatWorlds
    /\ track = TRUE
    /\ InitCall
    /\ InitManager

InitFaults ==
    /\ settings \in {st \in SettingsSet : st.github_token # "" /\ st.github_org = <<>>}
    /\ gh \in FaultWorlds
    /\ track = FALSE
    /\ InitCall
    /\ InitManager

\* The manager before its first call, over the files a start may find
InitConfig ==
    /\ settings = CHOOSE st \in SettingsSet : st.github_token = ""
    /\ gh = CHOOSE w \in FaultWorlds : TRUE
    /\ track = FALSE
    /\ InitCall
    /\ cm_config = None
    /\ files \in { [p \in Paths |-> IF p = ConfigFile THEN f ELSE o] :
                     f \in InitialConfigFiles, o \in InitialOtherFiles }
    /\ hist = NoHist
    /\ environment = NoEnvironment

Init == InitTree \/ InitDetails

\* The data sets under which termination is checked: repository lists of
\* one page and of two, and a repository with three non-empty categories
LiveWorlds ==
    PagedWorlds
    \cup {w \in TreeWorlds : w.orgs # <<>> /\ w.nrepos[A] = 1 /\ w.nrepos[B] = 1}
    \cup {w \in DetailWorlds : /\ w.items["workflow_runs"] = 1
                               /\ w.items["workflows"] = 0
                               /\ w.marks = "none"}

InitLive ==
    /\ settings \in SettingsSet
    /\ gh \in LiveWorlds
    /\ track = FALSE
    /\ InitCall
    /\ InitManager

-----------------------------------------------------------------------------
(* get_tree *)

\* What the configuration side holds: no request changes it
kept == <<settings, gh, track, cm_config, files, hist, environment>>

env == <<kept, total_count>>

\* Variant: the filter's logins taken last to first
FilterRootsReversed(org_list) ==
    [i \in 1..Len(org_list) |-> [login |-> org_list[Len(org_list) + 1 - i]]]

\* orgs_to_fetch = [{"login": org} for org in org_list]
FilterRoots(org_list) == [i \in 1..Len(org_list) |-> [login |-> org_list[i]]]

\* orgs_to_fetch = [{"login": settings.github_org}]
DefaultRoot == <<[login |-> settings.github_org]>>

\* Variant: a request that timed out leaves the call waiting
FailBlocked(r) ==
    /\ pc' = IF r.kind = "transport" THEN "blocked" ELSE "done"
    /\ outcome' = IF r.kind = "transport" THEN outcome ELSE Classify(r)
    /\ UNCHANGED client

\* except HTTPException / httpx.HTTPStatusError / Exception: the call ends
\* with an error; client.close() is not reached
Fail(r) ==
    /\ pc' = "done"
    /\ outcome' = Classify(r)
    /\ UNCHANGED client

\* server.py 96-112: up to the first await
get_tree(orgs, x_github_token, x_github_api_url) ==
    /\ pc = "idle"
    /\ call' = [op |-> "tree", orgs |-> orgs, owner |-> <<>>, repo |-> <<>>,
                x_github_token |-> x_github_token,
                x_github_api_url |-> x_github_api_url]
    /\ LET token == ResolveToken(x_github_token)
           org_list == ParseOrgs(orgs)
       IN  IF token = ""
           THEN /\ pc' = "done"
                /\ outcome' = TokenRequired
                /\ UNCHANGED <<client, orgs_to_fetch>>
           ELSE /\ client' = GitHubClient(token, ResolveApiUrl(x_github_api_url))
                /\ outcome' = NoOutcome
                /\ IF org_list # <<>>
                   THEN orgs_to_fetch' = FilterRoots(org_list) /\ pc' = "org_repos"
                   ELSE IF settings.github_org # <<>>
                   THEN orgs_to_fetch' = DefaultRoot /\ pc' = "org_repos"
                   ELSE orgs_to_fetch' = <<>> /\ pc' = "user_orgs"
    /\ UNCHANGED <<env, requests, idx, repos, page, scope, personal_repos, fetched,
                   tree_nodes, children, prev>>

\* github_client.py 23-27, server.py 114
get_user_orgs ==
    /\ pc = "user_orgs"
    /\ \E r \in Responses :
        /\ requests' = Append(requests, Request("user_orgs", <<>>, 1, r))
        /\ IF r.kind = "ok"
           THEN /\ orgs_to_fetch' = [i \in 1..Len(gh.orgs) |-> [login |-> gh.orgs[i]]]
                /\ pc' = "user_repos"
                /\ UNCHANGED <<client, outcome>>
           ELSE /\ Fail(r)
                /\ UNCHANGED orgs_to_fetch
    /\ UNCHANGED <<env, call, idx, repos, page, scope, personal_repos, fetched,
                   tree_nodes, children, prev>>

\* if personal_repos: tree_nodes.append(build_org_tree_lightweight(...))
WithPersonal(nodes, owned) ==
    IF owned # <<>>
    THEN Append(nodes, build_org_tree_lightweight(PersonalRepositories, owned))
    ELSE nodes

\* github_client.py 80-103 (one page per step), server.py 116-119
\* Variant: only an empty page ends the loop
MorePagesUntilEmpty(data) == data # <<>>

\* if not data: break ... if len(data) < per_page: break
MorePages(data) == data # <<>> /\ ~(Len(data) < per_page)

get_user_repos ==
    /\ pc = "user_repos"
    /\ \E r \in Responses :
        /\ requests' = Append(requests, Request("user_repos", <<>>, page, r))
        /\ IF r.kind = "ok"
           THEN LET data == Page(UpstreamRepos(Me), page)
                    collected == repos \o data
                IN  IF MorePages(data)
                    THEN /\ repos' = collected
                         /\ page' = page + 1
                         /\ UNCHANGED <<pc, tree_nodes, personal_repos, client, outcome>>
                    ELSE /\ personal_repos' = collected
                         /\ tree_nodes' = WithPersonal(tree_nodes, collected)
                         /\ repos' = <<>>
                         /\ page' = 1
                         /\ pc' = IF orgs_to_fetch = <<>> THEN "close" ELSE "org_repos"
                         /\ UNCHANGED <<client, outcome>>
           ELSE /\ Fail(r)
                /\ UNCHANGED <<repos, page, tree_nodes, personal_repos>>
    /\ UNCHANGED <<env, call, orgs_to_fetch, idx, scope, fetched, children, prev>>

\* Variant: the fallback loop asks the organization endpoint again
EndpointOrgOnly(sc) == "orgs_repos"

\* f"{self.base_url}/orgs/{org}/repos", f"{self.base_url}/users/{org}/repos"
Endpoint(sc) == IF sc = "org" THEN "orgs_repos" ELSE "users_repos"

\* github_client.py 29-78 (one page per step), server.py 122-126
get_org_repos ==
    /\ pc = "org_repos"
    /\ LET org == orgs_to_fetch[idx].login
       IN  \E r \in Responses :
        /\ requests' = Append(requests,
              Request(Endpoint(scope), org, page, r))
        /\ IF r.kind = "ok"
           THEN LET data == Page(UpstreamRepos(org), page)
                    collected == repos \o data
                IN  IF MorePages(data)
                    THEN /\ repos' = collected
                         /\ page' = page + 1
                         /\ UNCHANGED <<pc, tree_nodes, idx, scope, fetched, client, outcome>>
                    ELSE /\ fetched' = Append(fetched, collected)
                         /\ tree_nodes' =
                               Append(tree_nodes, build_org_tree_lightweight(org, collected))
                         /\ repos' = <<>>
                         /\ page' = 1
                         /\ scope' = "org"
                         /\ idx' = idx + 1
                         /\ pc' = IF idx + 1 > Len(orgs_to_fetch) THEN "close" ELSE "org_repos"
                         /\ UNCHANGED <<client, outcome>>
           ELSE IF r.kind = "status" /\ r.status = 404 /\ scope = "org"
           THEN /\ scope' = "user"
                /\ page' = 1
                /\ UNCHANGED <<pc, client, outcome, repos, tree_nodes, idx, fetched>>
           ELSE /\ Fail(r)
                /\ UNCHANGED <<repos, page, tree_nodes, idx, scope, fetched>>
    /\ UNCHANGED <<env, call, orgs_to_fetch, personal_repos, children, prev>>

\* The ids of a result, at every position: one sequence of ids per root
IdsOf(nodes) ==
    [i \in 1..Len(nodes) |->
        <<nodes[i].id>> \o [j \in 1..Len(nodes[i].children) |-> nodes[i].children[j].id]]

\* await client.close(); return tree_nodes
close_tree ==
    /\ pc = "close"
    /\ call.op = "tree"
    /\ client' = [client EXCEPT !.state = "closed"]
    /\ outcome' = Returned(tree_nodes)
    /\ pc' = "done"
    /\ UNCHANGED <<env, call, requests, orgs_to_fetch, idx, repos, page, scope,
                   personal_repos, fetched, tree_nodes, children, prev>>

-----------------------------------------------------------------------------
(* get_notifications_count *)

\* How many items page p holds when n items are served `size` per page
PageLen(n, p, size) ==
    IF n - (p - 1) * size <= 0 THEN 0 ELSE Min(size, n - (p - 1) * size)

\* The number of the last page of n items served `size` per page
LastPage(n, size) == (n + size - 1) \div size

\* The Link header of the first page: rel="last" is there when more pages
\* follow, and names the last page
LinkLast(n, size) == IF LastPage(n, size) > 1 THEN Some(LastPage(n, size)) ELSE None

\* server.py 646-661: up to the first await
get_notifications_count(x_github_token, x_github_api_url) ==
    /\ pc = "idle"
    /\ call' = [op |-> "count", orgs |-> <<>>, owner |-> <<>>, repo |-> <<>>,
                x_github_token |-> x_github_token,
                x_github_api_url |-> x_github_api_url]
    /\ LET token == ResolveToken(x_github_token)
       IN  IF token = ""
           THEN /\ pc' = "done"
                /\ outcome' = TokenRequired
                /\ UNCHANGED client
           ELSE /\ client' = GitHubClient(token, ResolveApiUrl(x_github_api_url))
                /\ outcome' = NoOutcome
                /\ pc' = "count"
    /\ total_count' = 0
    /\ UNCHANGED <<kept, requests, orgs_to_fetch, idx, repos, page, scope,
                   personal_repos, fetched, tree_nodes, children, prev>>

\* items_on_last_page = len(last_response.json()) of the request
\* page=last_page, per_page=100; total_count = (last_page - 1) * 100 + that
CountedByLastPage(last_page, unread) ==
    (last_page - 1) * notifications_per_page
        + PageLen(unread, last_page, notifications_per_page)

\* github_client.py 217-233: params={"all": "false", "per_page": 1}, then
\* the Link header; except httpx.HTTPStatusError: return {"unread_count": 0}
notifications_first ==
    /\ pc = "count"
    /\ \E r \in Responses :
        /\ requests' = Append(requests, Request("notifications", ToStr(1), 1, r))
        /\ CASE r.kind = "ok" ->
                   /\ IF LinkLast(gh.unread, 1) # None
                      THEN pc' = "count_last" /\ page' = LinkLast(gh.unread, 1)[1]
                      ELSE pc' = "count_all" /\ page' = 1
                   /\ UNCHANGED <<total_count, client, outcome>>
             [] r.kind = "status" ->
                   /\ total_count' = 0
                   /\ pc' = "rate_limit"
                   /\ UNCHANGED <<page, client, outcome>>
             [] OTHER ->
                   /\ Fail(r)
                   /\ UNCHANGED <<page, total_count>>
    /\ UNCHANGED <<kept, call, orgs_to_fetch, idx, repos, scope, personal_repos,
                   fetched, tree_nodes, children, prev>>

\* github_client.py 234-241: params={"all": "false", "page": last_page,
\* "per_page": 100}
notifications_last ==
    /\ pc = "count_last"
    /\ \E r \in Responses :
        /\ requests' = Append(requests,
              Request("notifications", ToStr(notifications_per_page), page, r))
        /\ CASE r.kind = "ok" ->
                   /\ total_count' = CountedByLastPage(page, gh.unread)
                   /\ pc' = "rate_limit"
                   /\ UNCHANGED <<client, outcome>>
             [] r.kind = "status" ->
                   /\ total_count' = 0
                   /\ pc' = "rate_limit"
                   /\ UNCHANGED <<client, outcome>>
             [] OTHER ->
                   /\ Fail(r)
                   /\ UNCHANGED total_count
    /\ UNCHANGED <<kept, call, orgs_to_fetch, idx, repos, page, scope, personal_repos,
                   fetched, tree_nodes, children, prev>>

\* github_client.py 242-249: params={"all": "false", "per_page": 100}
notifications_all ==
    /\ pc = "count_all"
    /\ \E r \in Responses :
        /\ requests' = Append(requests,
              Request("notifications", ToStr(notifications_per_page), 1, r))
        /\ CASE r.kind = "ok" ->
                   /\ total_count' = PageLen(gh.unread, 1, notifications_per_page)
                   /\ pc' = "rate_limit"
                   /\ UNCHANGED <<client, outcome>>
             [] r.kind = "status" ->
                   /\ total_count' = 0
                   /\ pc' = "rate_limit"
                   /\ UNCHANGED <<client, outcome>>
             [] OTHER ->
                   /\ Fail(r)
                   /\ UNCHANGED total_count
    /\ UNCHANGED <<kept, call, orgs_to_fetch, idx, repos, page, scope, personal_repos,
                   fetched, tree_nodes, children, prev>>

\* server.py 665: rate_limit = await client.get_rate_limit(); its
\* raise_for_status is not caught in the client
get_rate_limit ==
    /\ pc = "rate_limit"
    /\ \E r \in Responses :
        /\ requests' = Append(requests, Request("rate_limit", <<>>, 1, r))
        /\ IF r.kind = "ok"
           THEN pc' = "close" /\ UNCHANGED <<client, outcome>>
           ELSE Fail(r)
    /\ UNCHANGED <<env, call, orgs_to_fetch, idx, repos, page, scope, personal_repos,
                   fetched, tree_nodes, children, prev>>

\* await client.close(); return {**count_data, "rate_limit": ...}
close_count ==
    /\ pc = "close"
    /\ call.op = "count"
    /\ client' = [client EXCEPT !.state = "closed"]
    /\ outcome' = Returned(<<[unread_count |-> total_count]>>)
    /\ pc' = "done"
    /\ UNCHANGED <<env, call, requests, orgs_to_fetch, idx, repos, page, scope,
                   personal_repos, fetched, tree_nodes, children, prev>>

-----------------------------------------------------------------------------
(* The answer leaves the server *)

\* The response is delivered; the call's locals are gone
respond ==
    /\ pc = "done"
    /\ pc' = "idle"
    /\ call' = NoCall
    /\ client' = NoClient
    /\ requests' = <<>>
    /\ orgs_to_fetch' = <<>>
    /\ idx' = 1
    /\ repos' = <<>>
    /\ page' = 1
    /\ scope' = "org"
    /\ personal_repos' = <<>>
    /\ fetched' = <<>>
    /\ tree_nodes' = <<>>
    /\ children' = <<>>
    /\ outcome' = NoOutcome
    /\ prev' = IF track /\ call.op = "tree" /\ outcome.status = 200
               THEN [valid |-> TRUE, key |-> call.orgs, ids |-> IdsOf(outcome.body)]
               ELSE prev
    /\ UNCHANGED env

-----------------------------------------------------------------------------
(* get_repo_details *)

\* server.py 348-354: up to the first await
get_repo_details(owner, repo, x_github_token, x_github_api_url) ==
    /\ pc = "idle"
    /\ call' = [op |-> "details", orgs |-> <<>>, owner |-> owner, repo |-> repo,
                x_github_token |-> x_github_token,
                x_github_api_url |-> x_github_api_url]
    /\ LET token == ResolveToken(x_github_token)
       IN  IF token = ""
           THEN /\ pc' = "done"
                /\ outcome' = TokenRequired
                /\ UNCHANGED client
           ELSE /\ client' = GitHubClient(token, ResolveApiUrl(x_github_api_url))
                /\ outcome' = NoOutcome
                /\ pc' = "details"
    /\ UNCHANGED <<env, requests, orgs_to_fetch, idx, repos, page, scope,
                   personal_repos, fetched, tree_nodes, children, prev>>

\* Variant: authorization and rate-limit statuses re-raised, as in get_tree
SwallowedUnlessAuth(r) == r.kind = "status" /\ r.status \notin {401, 403}

\* except httpx.HTTPStatusError: return []   (no other exception is caught)
Swallowed(r) == r.kind = "status"

\* Variant: the workflows are asked for a second time in place of the runs
CategoryAtRepeating(i) == Categories[IF i = 2 THEN 1 ELSE i]

\* The i-th fetch of build_repo_details: get_workflows, get_workflow_runs,
\* get_runners, get_branches, get_pull_requests, get_issues
CategoryAt(i) == Categories[i]

FailedCount == Cardinality({i \in 1..Len(requests) : requests[i].failed})

\* One category of build_repo_details (server.py 182-334) with its client
\* method (github_client.py 105-177): except httpx.HTTPStatusError: return []
fetch_category ==
    /\ pc = "details"
    /\ LET c == CategoryAt(idx)
       IN  \E r \in Responses :
        /\ r.kind = "status" => FailedCount < gh.faults
        /\ requests' = Append(requests, Request(c, call.owner \o <<"/">> \o call.repo, 1, r))
        /\ IF r.kind # "ok" /\ ~Swallowed(r)
           THEN /\ Fail(r)
                /\ UNCHANGED <<children, idx>>
           ELSE LET items == IF r.kind = "ok" THEN Fetched(c) ELSE <<>>
                IN  /\ children' = WithContainer(children, c, call.owner, call.repo, items)
                    /\ idx' = idx + 1
                    /\ pc' = IF idx = Len(Categories) THEN "close" ELSE "details"
                    /\ UNCHANGED <<client, outcome>>
    /\ UNCHANGED <<env, call, orgs_to_fetch, repos, page, scope, personal_repos,
                   fetched, tree_nodes, prev>>

\* await client.close(); return children
close_details ==
    /\ pc = "close"
    /\ call.op = "details"
    /\ client' = [client EXCEPT !.state = "closed"]
    /\ outcome' = Returned(children)
    /\ pc' = "done"
    /\ UNCHANGED <<env, call, requests, orgs_to_fetch, idx, repos, page, scope,
                   personal_repos, fetched, tree_nodes, children, prev>>

-----------------------------------------------------------------------------
(* Specifications *)

Headers == {<<"", "">>, <<"th", "">>, <<"", "https://ghe.example/api/v3">>}

DetailsCall ==
    \E rp \in RepoParams, h \in Headers : get_repo_details(rp[1], rp[2], h[1], h[2])

TreeCall ==
    \E orgs \in OrgsParams, h \in Headers : get_tree(orgs, h[1], h[2])

NextTree ==
    \/ TreeCall
    \/ get_user_orgs
    \/ get_user_repos
    \/ get_org_repos
    \/ close_tree
    \/ respond

NextDetails ==
    \/ DetailsCall
    \/ fetch_category
    \/ close_details
    \/ respond

Next ==
    \/ TreeCall
    \/ get_user_orgs
    \/ get_user_repos
    \/ get_org_repos
    \/ close_tree
    \/ DetailsCall
    \/ fetch_category
    \/ close_details
    \/ respond

\* Both operations, over every data set
Spec == Init /\ [][Next]_vars

Tokens == {"t1"}

ApiUrls == {"https://ghe.example/api/v3"}

Organizations == {None, Some(B)}

WatchedNames == {<<"b", "r2">>}

EnabledLists == {<<[node_id |-> "org-a", enabled |-> TRUE]>>}

Themes == {"light", "dark"}

WindowSizes == {None, Some("800x600")}

WindowPositions == {None, Some("10,10")}

NextConfig ==
    \/ get_config
    \/ \E token \in Tokens : update_github_token(token)
    \/ \E api_url \in ApiUrls : update_github_api_url(api_url)
    \/ \E organization \in Organizations : update_github_organization(organization)
    \/ \E n \in WatchedNames, notifications \in BOOLEAN :
          add_watched_repo(n[1], n[2], notifications)
    \/ \E n \in WatchedNames : remove_watched_repo(n[1], n[2])
    \/ \E enabled_repos \in EnabledLists : update_enabled_repos(enabled_repos)
    \/ \E theme \in Themes : update_ui_theme(theme)
    \/ \E size \in WindowSizes, position \in WindowPositions :
          update_window_settings(size, position)
    \/ reset_config
    \/ \E export_path \in Paths : export_config(export_path)
    \/ \E import_path \in Paths : import_config(import_path)

\* The configuration manager alone, over the files a start may find
SpecConfig == InitConfig /\ [][NextConfig]_vars

\* The variables of the process and the .env file a start may find
Environments ==
    { [environ |-> [GITHUB_TOKEN |-> et, GITHUB_ORG |-> eo, GITHUB_API_URL |-> None],
       dotenv |-> [GITHUB_TOKEN |-> dt, GITHUB_ORG |-> do]] :
      et \in {None, Some("te")}, eo \in {None, Some(A)},
      dt \in {None, Some("td")}, do \in {None, Some(B)} }

\* The process before config.py is imported
InitSettings ==
    /\ settings = DefaultSettings
    /\ gh = CHOOSE w \in FaultWorlds : TRUE
    /\ track = FALSE
    /\ InitCall
    /\ cm_config = None
    /\ files \in { [p \in Paths |-> IF p = ConfigFile THEN f ELSE Absent] :
                     f \in InitialConfigFiles }
    /\ hist = NoHist
    /\ environment \in Environments

NextSettings == load_settings

\* load_settings over the environments and config files a start may find
SpecSettings == InitSettings /\ [][NextSettings]_vars

\* The default configuration: no config.json yet, nothing in memory
InitWatched ==
    /\ settings = CHOOSE st \in SettingsSet : st.github_token = ""
    /\ gh = CHOOSE w \in FaultWorlds : TRUE
    /\ track = FALSE
    /\ InitCall
    /\ InitManager

WatchedPairs == {<<"a", "r1">>, <<"a", "r2">>, <<"b", "r1">>}

NextWatched ==
    \/ \E n \in WatchedPairs, notifications \in BOOLEAN :
          add_watched_repo(n[1], n[2], notifications)
    \/ \E n \in WatchedPairs : remove_watched_repo(n[1], n[2])

\* add_watched_repo and remove_watched_repo from the default configuration
SpecWatched == InitWatched /\ [][NextWatched]_vars

\* Both operations, every request being answered or timing out in the end
\* (httpx.AsyncClient(timeout=30.0)) and the event loop running what can run
SpecLive == InitLive /\ [][Next]_vars /\ WF_vars(Next)

\* Upstream with 0 to MaxUnread unread notifications
NotificationWorlds ==
    { [orgs |-> <<>>, nrepos |-> [l \in Logins |-> 0], items |-> NoItems,
       marks |-> "none", faults |-> 0, unread |-> n] : n \in 0..MaxUnread }

InitNotifications ==
    /\ settings \in {st \in SettingsSet : st.github_org = <<>>}
    /\ gh \in NotificationWorlds
    /\ track = FALSE
    /\ InitCall
    /\ InitManager

NextNotifications ==
    \/ \E h \in Headers : get_notifications_count(h[1], h[2])
    \/ notifications_first
    \/ notifications_last
    \/ notifications_all
    \/ get_rate_limit
    \/ close_count
    \/ respond

\* get_notifications_count alone, over the numbers of unread notifications
SpecNotifications == InitNotifications /\ [][NextNotifications]_vars

\* Upstream with one organization, one repository per login and one
\* category of the requested repository holding an item
ServerWorlds ==
    { [orgs |-> <<A>>, nrepos |-> [l \in Logins |-> 1],
       items |-> [c \in CategorySet |-> IF c = "branches" THEN 1 ELSE 0],
       marks |-> "none", faults |-> 0, unread |-> 0] }

\* No token in the variables of the process or in the .env file
TokenlessEnvironments ==
    {e \in Environments : /\ e.environ.GITHUB_TOKEN = None
                          /\ e.dotenv.GITHUB_TOKEN = None
                          /\ e.environ.GITHUB_ORG = None}

\* The server after start: config.py has run load_settings over the
\* config.json it found
InitServer ==
    /\ environment \in TokenlessEnvironments
    /\ files \in { [p \in Paths |-> IF p = ConfigFile THEN f ELSE Absent] :
                     f \in {model_dump(AppConfig), model_dump(SavedConfig)} }
    /\ cm_config = Some(Loaded)
    /\ settings = FinalSettings(Loaded)
    /\ hist = NoHist
    /\ gh \in ServerWorlds
    /\ track = FALSE
    /\ InitCall

\* The bodies the configuration endpoint is sent
ConfigUpdates ==
    { <<Some("t1"), None, None>>,
      <<None, Some("https://ghe.example/api/v3"), None>>,
      <<None, None, Some(B)>>,
      <<Some("t1"), Some("https://ghe.example/api/v3"), Some(B)>> }

NextServer ==
    \/ \E u \in ConfigUpdates : update_github_config(u[1], u[2], u[3])
    \/ reset_configuration
    \/ \E x_github_token \in {"", "th"} : get_tree(<<>>, x_github_token, "")
    \/ get_user_orgs
    \/ get_user_repos
    \/ get_org_repos
    \/ close_tree
    \/ \E x_github_token \in {"", "th"} : get_repo_details(A, R1, x_github_token, "")
    \/ fetch_category
    \/ close_details
    \/ respond

\* The two operations and the configuration endpoints of one server
SpecServer == InitServer /\ [][NextServer]_vars

\* The server has started and loaded config.json; the CLI has not run yet
InitShared ==
    /\ environment = NoEnvironment
    /\ files \in { [p \in Paths |-> IF p = ConfigFile THEN f ELSE Absent] :
                     f \in {model_dump(AppConfig), model_dump(SavedConfig)} }
    /\ cm_config = Some(Loaded)
    /\ settings = FinalSettings(Loaded)
    /\ hist = NoHist
    /\ gh = CHOOSE w \in FaultWorlds : TRUE
    /\ track = FALSE
    /\ InitCall

\* The CLI sets the token; the server changes other fields
NextShared ==
    \/ \E token \in Tokens : set_token(token)
    \/ \E api_url \in ApiUrls : update_github_api_url(api_url)
    \/ \E n \in WatchedNames, notifications \in BOOLEAN :
          add_watched_repo(n[1], n[2], notifications)
    \/ \E n \in WatchedNames : remove_watched_repo(n[1], n[2])
    \/ \E theme \in Themes : update_ui_theme(theme)
    \/ \E size \in WindowSizes, position \in WindowPositions :
          update_window_settings(size, position)

\* The manager of the running server and the config CLI on one config.json
SpecShared == InitShared /\ [][NextShared]_vars

\* get_tree alone, over the data sets that vary organizations and repositories
SpecTree == InitTree /\ [][NextTree]_vars

\* get_repo_details alone, over the data sets that vary the sub-resources
SpecDetails == InitDetails /\ [][NextDetails]_vars

\* get_repo_details alone, over the data sets in which any category may fail
SpecFaults == InitFaults /\ [][NextDetails]_vars

\* get_tree called again and again, the ids of the last result remembered
SpecRepeat == InitRepeat /\ [][NextTree]_vars

-----------------------------------------------------------------------------
(* Reading a result *)

Succeeded(op) == pc = "done" /\ call.op = op /\ outcome.status = 200

\* Every position of a result: a root, a child of a root, a grandchild
Positions(nodes) ==
    {<<i>> : i \in 1..Len(nodes)}
    \cup UNION {{<<i, j>> : j \in 1..Len(nodes[i].children)} : i \in 1..Len(nodes)}
    \cup UNION {UNION {{<<i, j, k>> : k \in 1..Len(nodes[i].children[j].children)} :
                       j \in 1..Len(nodes[i].children)} : i \in 1..Len(nodes)}

NodeAt(nodes, p) ==
    IF Len(p) = 1 THEN nodes[p[1]]
    ELSE IF Len(p) = 2 THEN nodes[p[1]].children[p[2]]
    ELSE nodes[p[1]].children[p[2]].children[p[3]]

NoCredential == call.x_github_token = "" /\ settings.github_token = ""

Asked(ep) == \E k \in 1..Len(requests) : requests[k].ep = ep

Answered(ep) == \E k \in 1..Len(requests) : requests[k].ep = ep /\ ~requests[k].failed

NoFilter == ParseOrgs(call.orgs) = <<>>

\* The roots come from the identity: no filter, no default organization
FromIdentity == NoFilter /\ settings.github_org = <<>>

\* In body, the organization nodes of orgs_to_fetch follow the personal root
Offset == Len(outcome.body) - Len(orgs_to_fetch)

-----------------------------------------------------------------------------
(* C1 *)

\* C1: a call (get_tree or get_repo_details) made with no token header while
\* no default token is configured ends at once with status 401 "GitHub token
\* is required"; it issues no upstream request and constructs no client.
C1_NoCredentialFails ==
    (call.op # "none" /\ NoCredential) =>
        /\ pc = "done"
        /\ outcome.status = 401
        /\ outcome.detail = "GitHub token is required"
        /\ requests = <<>>
        /\ client.state = "none"

C1_Witness ==
    /\ pc = "done"
    /\ call.op = "details"
    /\ NoCredential
    /\ outcome.status = 401
    /\ requests = <<>>

-----------------------------------------------------------------------------
(* C2 *)

\* C2: in every returned result, every node at any depth that has
\* isLoaded = FALSE has hasChildren = TRUE and no children.
C2_UnloadedShape ==
    (pc = "done" /\ outcome.status = 200) =>
        \A p \in Positions(outcome.body) :
            LET n == NodeAt(outcome.body, p)
            IN  ~n.isLoaded => (n.hasChildren /\ n.children = <<>>)

C2_Witness ==
    /\ Succeeded("tree")
    /\ \E p \in Positions(outcome.body) : ~NodeAt(outcome.body, p).isLoaded
    /\ Len(outcome.body) >= 2

-----------------------------------------------------------------------------
(* C3 *)

ContainerTypes == CategorySet

LeafTypes == {LeafType(c) : c \in CategorySet}

\* C3: in every returned result a node has isLoaded = FALSE exactly when its
\* type is repository; organization nodes, the six containers and their
\* leaves all have isLoaded = TRUE.
C3_OnlyRepositoriesUnloaded ==
    (pc = "done" /\ outcome.status = 200) =>
        \A p \in Positions(outcome.body) :
            LET n == NodeAt(outcome.body, p)
            IN  /\ n.type \in {"organization", "repository"} \cup ContainerTypes \cup LeafTypes
                /\ (~n.isLoaded) <=> (n.type = "repository")

C3_Witness ==
    /\ Succeeded("details")
    /\ Len(outcome.body) = Len(Categories)
    /\ \A i \in 1..Len(outcome.body) : outcome.body[i].children # <<>>

-----------------------------------------------------------------------------
(* C4 *)

IdsDistinct(nodes) ==
    LET ps == Positions(nodes)
    IN  Cardinality({NodeAt(nodes, p).id : p \in ps}) = Cardinality(ps)

\* Upstream resources have distinct identities: owner/name pairs, numeric
\* ids and names per kind, organizations of the identity
DistinctIdentities ==
    /\ Cardinality(UNION {{UpstreamRepos(l)[i] : i \in 1..Len(UpstreamRepos(l))} :
                          l \in Logins})
          = gh.nrepos[A] + gh.nrepos[B] + gh.nrepos[AB]
    /\ \A c \in CategorySet :
         LET items == UpstreamItems(c)
         IN  /\ Cardinality({items[i].id : i \in 1..Len(items)}) = Len(items)
             /\ Cardinality({items[i].name : i \in 1..Len(items)}) = Len(items)
    /\ Cardinality({gh.orgs[i] : i \in 1..Len(gh.orgs)}) = Len(gh.orgs)

RootsDistinct ==
    \A i, j \in 1..Len(orgs_to_fetch) :
        i # j => orgs_to_fetch[i].login # orgs_to_fetch[j].login

\* C4, on the calls whose org filter repeats no login (a filter that does
\* repeat one yields two roots with the id org-<login>): within one result no
\* two nodes, at any depth, share an id, for every upstream data set whose
\* resources have distinct identities.
C4_Original ==
    (pc = "done" /\ outcome.status = 200 /\ DistinctIdentities /\ RootsDistinct) =>
        IdsDistinct(outcome.body)

\* Two repositories of different owners, under different roots of a filter
\* that repeats no login, each fetched in one answer, carry the same id
C4_Witness ==
    /\ Succeeded("tree")
    /\ DistinctIdentities
    /\ RootsDistinct
    /\ Len(requests) = Len(orgs_to_fetch)
    /\ \E i, j \in 1..Len(outcome.body) :
          /\ i # j
          /\ \E k \in 1..Len(outcome.body[i].children) :
              \E l \in 1..Len(outcome.body[j].children) :
                 /\ outcome.body[i].children[k].id = outcome.body[j].children[l].id
                 /\ outcome.body[i].children[k].metadata.owner
                       # outcome.body[j].children[l].metadata.owner

-----------------------------------------------------------------------------
(* C5 *)

\* The id patterns of the shallow tree: org-<login>, repo-<owner>-<name>
PatternIds(nodes) ==
    [i \in 1..Len(nodes) |->
        <<<<"o", "r", "g", "-">> \o nodes[i].name>>
        \o [j \in 1..Len(nodes[i].children) |->
              <<"r", "e", "p", "o", "-">> \o nodes[i].children[j].metadata.owner \o <<"-">>
                  \o nodes[i].children[j].name]]

\* C5: a successful get_tree returns, at every position, the ids that the
\* previous successful get_tree with the same org filter returned (the
\* default organization and the upstream data being the same), whatever
\* calls were made before; each id is org-<login> or repo-<owner>-<name>.
C5_SameIdsAgain ==
    Succeeded("tree") =>
        /\ IdsOf(outcome.body) = PatternIds(outcome.body)
        /\ (prev.valid /\ prev.key = call.orgs) => IdsOf(outcome.body) = prev.ids

C5_Witness ==
    /\ Succeeded("tree")
    /\ prev.valid
    /\ prev.key = call.orgs
    /\ Len(outcome.body) >= 2
    /\ outcome.body[1].children # <<>>
    /\ IdsOf(outcome.body) = prev.ids

-----------------------------------------------------------------------------
(* C6 *)

\* The logins each org filter of OrgsParams names, in its order
FilterLogins(orgs) ==
    CASE orgs = <<>> -> <<>>
      [] orgs = A -> <<A>>
      [] orgs = B -> <<B>>
      [] orgs = <<"a", ",", "a", "-", "b">> -> <<A, AB>>
      [] orgs = <<"a", "-", "b", ",", " ", "a">> -> <<AB, A>>
      [] orgs = <<"a", ",", "a">> -> <<A, A>>
      [] orgs = <<"a", ",">> -> <<A, <<>> >>

RootNames == [i \in 1..Len(outcome.body) |-> outcome.body[i].name]

FilterOrDefaultRule ==
    IF FilterLogins(call.orgs) # <<>>
    THEN /\ RootNames = FilterLogins(call.orgs)
         /\ ~Asked("user_orgs")
         /\ ~Asked("user_repos")
    ELSE settings.github_org # <<>> =>
            /\ RootNames = <<settings.github_org>>
            /\ ~Asked("user_orgs")
            /\ ~Asked("user_repos")

-----------------------------------------------------------------------------
(* C7 *)

EmptyRootsKept ==
    /\ Offset \in {0, 1}
    /\ \A i \in 1..Len(orgs_to_fetch) :
          UpstreamRepos(orgs_to_fetch[i].login) = <<>> =>
              LET n == outcome.body[Offset + i]
              IN  /\ n.name = orgs_to_fetch[i].login
                  /\ n.type = "organization"
                  /\ n.children = <<>>
                  /\ n.hasChildren = FALSE

-----------------------------------------------------------------------------
(* C8 *)

\* The 404 that sent a fetch to the user endpoint came on the first
\* organization page, before any repository was collected
NoLateFallback ==
    \A k \in 1..Len(requests) :
        (requests[k].ep = "users_repos" /\ requests[k].page = 1) =>
            /\ k > 1
            /\ requests[k - 1].ep = "orgs_repos"
            /\ requests[k - 1].page = 1

RepoNodesOf(n, rs) ==
    /\ Len(n.children) = Len(rs)
    /\ \A j \in 1..Len(rs) :
          LET ch == n.children[j]
          IN  /\ ch.type = "repository"
              /\ ch.name = rs[j].name
              /\ ch.metadata.owner = rs[j].owner
              /\ ch.hasChildren
              /\ ~ch.isLoaded
              /\ ch.children = <<>>

RECURSIVE Concat(_)
Concat(lists) == IF lists = <<>> THEN <<>> ELSE Head(lists) \o Concat(Tail(lists))

\* Every repository the organization/user repository requests of this call
\* were answered with, in the order of the answers
ReturnedByUpstream ==
    Concat([k \in 1..Len(requests) |->
              IF requests[k].ep \in {"orgs_repos", "users_repos"} /\ ~requests[k].failed
              THEN Page(UpstreamRepos(requests[k].arg), requests[k].page)
              ELSE <<>>])

\* The repositories under the login roots of the result, in tree order
RepositoriesShown ==
    Concat([i \in 1..Len(orgs_to_fetch) |->
              [j \in 1..Len(outcome.body[Offset + i].children) |->
                  [owner |-> outcome.body[Offset + i].children[j].metadata.owner,
                   name |-> outcome.body[Offset + i].children[j].name]]])

\* C8: a successful get_tree holds one organization node per root, in the
\* order of the roots, and the children of each are one repository node per
\* repository the fetch for that root returned, in returned order (the
\* upstream list's order), each with hasChildren = TRUE and isLoaded = FALSE.
C8_OneNodePerRepository ==
    Succeeded("tree") =>
        /\ Offset = (IF personal_repos # <<>> THEN 1 ELSE 0)
        /\ Len(fetched) = Len(orgs_to_fetch)
        /\ Offset = 1 => RepoNodesOf(outcome.body[1], personal_repos)
        /\ \A i \in 1..Len(orgs_to_fetch) :
              LET n == outcome.body[Offset + i]
              IN  /\ n.type = "organization"
                  /\ n.name = orgs_to_fetch[i].login
                  /\ RepoNodesOf(n, fetched[i])
                  /\ NoLateFallback =>
                        fetched[i] = UpstreamRepos(orgs_to_fetch[i].login)
        /\ RepositoriesShown = ReturnedByUpstream

C8_Witness ==
    /\ Succeeded("tree")
    /\ Len(orgs_to_fetch) = 2
    /\ orgs_to_fetch[1].login # orgs_to_fetch[2].login
    /\ Len(outcome.body[Offset + 2].children) >= 2
    /\ Len(outcome.body[Offset + 1].children) = 1
    /\ Asked("users_repos")

-----------------------------------------------------------------------------
(* C9 *)

CappedCategories == {"workflows", "workflow_runs", "branches", "pull_requests", "issues"}

ClaimedCap(c) == IF c = "workflow_runs" THEN 10 ELSE 20

\* What the fetch of a category returned to build_repo_details
ReturnedBy(c) == IF Answered(c) THEN Fetched(c) ELSE <<>>

ContainersOf(c) == {i \in 1..Len(outcome.body) : outcome.body[i].type = c}

\* C9: in a get_repo_details result, the container of each of workflows,
\* branches, pull requests, issues (cap 20) and workflow runs (cap 10) has
\* min(count, cap) children, count being the number of items the category's
\* fetch returned, and its children are, in order, the first min(count, cap)
\* items of the fetched list.
C9_TruncatedPrefix ==
    Succeeded("details") =>
        \A c \in CappedCategories :
            LET items == ReturnedBy(c)
                n == Min(Len(items), ClaimedCap(c))
            IN  /\ Cardinality(ContainersOf(c)) = (IF items = <<>> THEN 0 ELSE 1)
                /\ \A i \in ContainersOf(c) :
                      /\ Len(outcome.body[i].children) = n
                      /\ \A j \in 1..n :
                            /\ outcome.body[i].children[j].id =
                                  LeafId(c, call.owner, call.repo, items[j])
                            /\ outcome.body[i].children[j].name = LeafName(c, items[j])

C9_Witness ==
    /\ Succeeded("details")
    /\ Len(ReturnedBy("workflow_runs")) > 10
    /\ Len(ReturnedBy("issues")) > 20
    /\ \E i \in ContainersOf("workflow_runs") : Len(outcome.body[i].children) = 10
    /\ \E i \in ContainersOf("issues") : Len(outcome.body[i].children) = 20

-----------------------------------------------------------------------------
(* C10 *)

IssueCount == gh.items["issues"]

IssueChildId(i) == <<"i", "s", "s", "u", "e", "-">> \o ToStr(ItemId(i))

\* The place of the i-th upstream item among the items without the marker
Rank(i) == Cardinality({k \in 1..i : ~Marked("issues", k)})

IssueChildren ==
    Concat([i \in 1..Len(outcome.body) |->
              IF outcome.body[i].type = "issues" THEN outcome.body[i].children ELSE <<>>])

\* C10: of the items the issues request was answered with, none that carries
\* the "pull_request" key is an issue child of the get_repo_details result,
\* every one without it that falls within the cap of 20 is, in its place, and
\* when every item carries the key there is no issues container.
C10_PullRequestsKeptOut ==
    (Succeeded("details") /\ Answered("issues")) =>
        /\ \A i \in 1..IssueCount :
              IF Marked("issues", i)
              THEN \A j \in 1..Len(IssueChildren) : IssueChildren[j].id # IssueChildId(i)
              ELSE Rank(i) <= 20 =>
                      /\ Len(IssueChildren) >= Rank(i)
                      /\ IssueChildren[Rank(i)].id = IssueChildId(i)
                      /\ IssueChildren[Rank(i)].type = "issue"
        /\ (\A i \in 1..IssueCount : Marked("issues", i)) => ContainersOf("issues") = {}

C10_Witness ==
    /\ Succeeded("details")
    /\ Answered("issues")
    /\ gh.marks = "odd"
    /\ IssueCount = MaxItems
    /\ Len(IssueChildren) = MaxItems \div 2
    /\ IssueChildren[1].id = IssueChildId(2)

-----------------------------------------------------------------------------
(* C11 *)

NoTransportFailure == \A k \in 1..Len(requests) : requests[k].status # 0

NonEmpty(c) == ReturnedBy(c) # <<>>

BodyTypes == [i \in 1..Len(outcome.body) |-> outcome.body[i].type]

\* C11: in get_repo_details, whatever subset of the six category requests is
\* answered with an HTTP error status (401 and 403 included, all six
\* included), no error is raised: the call goes on through all six categories
\* and returns 200 with exactly the containers of the categories that were
\* answered and are not empty.
C11_StatusFailuresIsolated ==
    (call.op = "details" /\ requests # <<>> /\ NoTransportFailure) =>
        /\ outcome.status \in {0, 200}
        /\ pc = "done" =>
              /\ outcome.status = 200
              /\ Len(requests) = Len(Categories)
              /\ BodyTypes = SelectSeq(Categories, NonEmpty)

C11_Witness ==
    /\ Succeeded("details")
    /\ requests[1].status = 401
    /\ requests[3].status = 403
    /\ BodyTypes = <<"workflow_runs", "branches", "pull_requests", "issues">>

\* All six category requests failed: the empty list is returned
C11_AllFailed ==
    /\ Succeeded("details")
    /\ Len(requests) = Len(Categories)
    /\ \A k \in 1..Len(requests) : requests[k].failed
    /\ outcome.body = <<>>

-----------------------------------------------------------------------------
(* C12 *)

\* C12 as stated: a timeout or transport failure of a category request, like
\* an HTTP error status, leaves the call successful: it ends with 200.
C12_Original ==
    (call.op = "details" /\ requests # <<>> /\ pc = "done") => outcome.status = 200

\* A category request timed out after earlier categories were fetched: the
\* call ended with status 500 and no container
C12_Witness ==
    /\ call.op = "details"
    /\ pc = "done"
    /\ Len(requests) >= 2
    /\ ~requests[1].failed
    /\ requests[Len(requests)].status = 0
    /\ outcome.status = 500
    /\ outcome.body = <<>>

-----------------------------------------------------------------------------
(* C13 *)

FixedOrder ==
    <<"workflows", "workflow_runs", "runners", "branches", "pull_requests", "issues">>

\* C13: the list get_repo_details returns holds one container for each
\* category whose fetch returned at least one item and none for the others,
\* in the order workflows, workflow_runs, runners, branches, pull_requests,
\* issues, each once.
C13_FixedOrderNoEmpty ==
    Succeeded("details") =>
        /\ BodyTypes = SelectSeq(FixedOrder, NonEmpty)
        /\ \A i \in 1..Len(outcome.body) :
              /\ outcome.body[i].children # <<>>
              /\ outcome.body[i].id =
                    ContainerId(outcome.body[i].type, call.owner, call.repo)

C13_Witness ==
    /\ Succeeded("details")
    /\ NoTransportFailure
    /\ \A k \in 1..Len(requests) : ~requests[k].failed
    /\ gh.items["workflows"] = 0
    /\ gh.items["branches"] > 0
    /\ BodyTypes = <<"branches">>

-----------------------------------------------------------------------------
(* C14 *)

\* The error a failed request is to surface as
Surfaced(q) ==
    CASE q.status = 401 -> [status |-> 401, detail |-> "Invalid GitHub token"]
      [] q.status = 403 -> [status |-> 403, detail |-> "GitHub API rate limit exceeded"]
      [] q.status = 0 -> [status |-> 500, detail |-> "exception"]
      [] OTHER -> [status |-> q.status, detail |-> "upstream status"]

OrgNotFound(q) == q.ep = "orgs_repos" /\ q.status = 404

\* C14 as stated: a get_tree build in which any upstream request failed
\* returns no list of roots: it ends with an error.
C14_Original ==
    (call.op = "tree" /\ pc = "done"
        /\ \E k \in 1..Len(requests) : requests[k].failed) =>
        (outcome.status # 200 /\ outcome.body = <<>>)

\* C14 amended: in get_tree a failed upstream request other than a 404 of the
\* organization-scoped repository endpoint is the last request of the call:
\* the build is aborted, no roots are returned even when earlier roots were
\* built, and the error is 401 "Invalid GitHub token" for an upstream 401,
\* 403 "GitHub API rate limit exceeded" for an upstream 403, the upstream
\* status for any other status, and 500 for a timeout or transport failure.
\* A 404 of the organization-scoped endpoint does not abort the build: the
\* user-scoped request for the same login follows.
C14_FailureAborts ==
    call.op = "tree" =>
        \A k \in 1..Len(requests) :
            requests[k].failed =>
                IF OrgNotFound(requests[k])
                THEN IF k = Len(requests)
                     THEN pc = "org_repos" /\ outcome.status = 0
                     ELSE /\ requests[k + 1].ep = "users_repos"
                          /\ requests[k + 1].arg = requests[k].arg
                          /\ requests[k + 1].page = 1
                ELSE /\ k = Len(requests)
                     /\ pc = "done"
                     /\ outcome.status = Surfaced(requests[k]).status
                     /\ outcome.detail = Surfaced(requests[k]).detail
                     /\ outcome.body = <<>>

C14_Witness ==
    /\ call.op = "tree"
    /\ pc = "done"
    /\ tree_nodes # <<>>
    /\ requests[Len(requests)].status = 403
    /\ outcome.status = 403
    /\ outcome.body = <<>>

-----------------------------------------------------------------------------
(* C15 *)

\* The organization-scoped endpoint answered 404 for the i-th root
FellBack(i) ==
    \E k \in 1..Len(requests) :
        OrgNotFound(requests[k]) /\ requests[k].arg = orgs_to_fetch[i].login

FellBackAtFirstPage(i) ==
    \A k \in 1..Len(requests) :
        (OrgNotFound(requests[k]) /\ requests[k].arg = orgs_to_fetch[i].login) =>
            requests[k].page = 1

\* The node of the i-th root has the shape of the organization path over
\* the repositories of the user-scoped endpoint
FallbackShape(i) ==
    LET n == outcome.body[Offset + i]
        login == orgs_to_fetch[i].login
    IN  /\ n.id = <<"o", "r", "g", "-">> \o login
        /\ n.type = "organization"
        /\ RepoNodesOf(n, UpstreamRepos(login))

\* A failure other than the organization-scoped 404 is the last request
Propagated ==
    \A k \in 1..Len(requests) :
        (requests[k].failed /\ ~OrgNotFound(requests[k])) =>
            (k = Len(requests) /\ pc = "done" /\ outcome.status # 200)

\* C15, on the calls whose roots are distinct logins: when the
\* organization-scoped endpoint answered 404 for a root, the node of that
\* root has id org-<login> and one repository child per repository of the
\* user-scoped endpoint; any other failure of either endpoint is propagated.
C15_Original ==
    (call.op = "tree" /\ RootsDistinct) =>
        /\ Propagated
        /\ Succeeded("tree") =>
              \A i \in 1..Len(orgs_to_fetch) : FellBack(i) => FallbackShape(i)

\* The 404 came on the second organization page: the root holds every
\* repository twice
C15_Witness ==
    /\ Succeeded("tree")
    /\ RootsDistinct
    /\ \E i \in 1..Len(orgs_to_fetch) :
          /\ FellBack(i)
          /\ ~FellBackAtFirstPage(i)
          /\ Len(outcome.body[Offset + i].children)
                = 2 * Len(UpstreamRepos(orgs_to_fetch[i].login))
          /\ outcome.body[Offset + i].children[1].id
                = outcome.body[Offset + i].children[per_page + 1].id

\* When the 404 comes on the first organization page, the node has the
\* shape of the organization path
C15_FirstPageFallback ==
    (call.op = "tree" /\ RootsDistinct) =>
        /\ Propagated
        /\ Succeeded("tree") =>
              \A i \in 1..Len(orgs_to_fetch) :
                  (FellBack(i) /\ FellBackAtFirstPage(i)) => FallbackShape(i)

-----------------------------------------------------------------------------
(* C16 *)

\* C16 as stated: when a call has returned, with a result or with an error,
\* the client it constructed is closed.
C16_Original == (pc = "done" /\ client.state # "none") => client.state = "closed"

\* A call ended with an error of an upstream request and its client is open
C16_Witness ==
    /\ pc = "done"
    /\ requests # <<>>
    /\ requests[Len(requests)].failed
    /\ outcome.status \in {401, 403, 404, 500}
    /\ client.state = "open"

\* A call that returns a result has closed its client
C16_ClosedOnSuccess ==
    (pc = "done" /\ outcome.status = 200) => client.state = "closed"

-----------------------------------------------------------------------------
(* C17 *)

SameRequest(p, q) == p.ep = q.ep /\ p.arg = q.arg /\ p.page = q.page

\* C17: within one get_tree call over distinct root logins, and within one
\* get_repo_details call, a request that failed is never issued again; a
\* failure is followed by no request of the same endpoint; in get_tree the
\* only request right after a failure is the user-scoped repository request
\* for the same login after an organization-scoped 404, and in
\* get_repo_details a failure is either the last request (propagated) or
\* followed by the request of the next category (turned into an empty list).
C17_NoRetry ==
    (call.op # "none" /\ (call.op = "tree" => RootsDistinct)) =>
        \A k \in 1..Len(requests) :
            requests[k].failed =>
                /\ \A m \in (k + 1)..Len(requests) :
                      ~SameRequest(requests[k], requests[m])
                /\ k < Len(requests) =>
                      IF call.op = "tree"
                      THEN /\ OrgNotFound(requests[k])
                           /\ requests[k + 1].ep = "users_repos"
                           /\ requests[k + 1].arg = requests[k].arg
                           /\ \A m \in (k + 1)..Len(requests) :
                                 requests[m].arg = requests[k].arg
                                    => requests[m].ep # "orgs_repos"
                      ELSE /\ requests[k].status # 0
                           /\ requests[k].ep = Categories[k]
                           /\ requests[k + 1].ep = Categories[k + 1]

C17_Witness ==
    /\ Succeeded("tree")
    /\ RootsDistinct
    /\ Len(orgs_to_fetch) = 2
    /\ OrgNotFound(requests[1])
    /\ requests[2].ep = "users_repos"
    /\ Len(requests) = 3

-----------------------------------------------------------------------------
(* C18 *)

\* C18: every upstream request of a get_tree or get_repo_details call goes
\* to the base URL of the call's X-GitHub-Api-Url header when the header is
\* supplied and to https://api.github.com otherwise, whatever API URL the
\* loaded settings hold.
C18_BaseUrlFromCall ==
    call.op # "none" =>
        \A k \in 1..Len(requests) :
            requests[k].base =
                (IF call.x_github_api_url # "" THEN call.x_github_api_url
                 ELSE "https://api.github.com")

C18_Witness ==
    /\ call.op = "details"
    /\ call.x_github_api_url = ""
    /\ settings.github_api_url = "https://cfg.example/api"
    /\ Len(requests) >= 2
    /\ requests[2].base = "https://api.github.com"

\* With the header supplied, the requests go to the header's URL
C18_WitnessOverride ==
    /\ call.op = "tree"
    /\ call.x_github_api_url = "https://ghe.example/api/v3"
    /\ settings.github_api_url = "https://cfg.example/api"
    /\ requests # <<>>
    /\ requests[1].base = "https://ghe.example/api/v3"

-----------------------------------------------------------------------------
(* C19 *)

\* Every ConfigManager call made so far returned without error, and at least
\* one of them was a mutation
MutatedCleanly == hist.clean /\ hist.mutations > 0

\* The record in config.json is the whole configuration in memory
PersistedWhole ==
    /\ cm_config # None
    /\ files[ConfigFile] = model_dump(cm_config[1])
    /\ files[ConfigFile].keys = Keys
    /\ Parse(files[ConfigFile]) = cm_config[1]

\* C19: after any sequence of ConfigManager mutations, each of which returned
\* without error, the record in the config file is the complete configuration
\* in memory: every key of the record, with the value memory holds.
C19_PersistedWhole == MutatedCleanly => PersistedWhole

\* config.json held the credentials only; the theme was changed and a
\* repository added: the file now holds every key
C19_Witness ==
    /\ MutatedCleanly
    /\ hist.nops = MaxOps
    /\ cm_config # None
    /\ cm_config[1].github.token = Some("t0")
    /\ cm_config[1].ui.theme = "dark"
    /\ cm_config[1].watched_repos = <<WatchedRepo("b", "r2", TRUE)>>
    /\ files[ConfigFile].keys = Keys

-----------------------------------------------------------------------------
(* C20 *)

\* The last call was import_config(p), it returned without error, and the
\* manager had exported a configuration to p before
ImportedExport(p) ==
    /\ hist.last = [op |-> "import_config", path |-> p, ok |-> TRUE]
    /\ hist.snap[p] # None

\* Memory and config.json both hold the configuration c, field by field
Holds(c) ==
    /\ cm_config = Some(c)
    /\ files[ConfigFile].kind = "json"
    /\ files[ConfigFile].keys = Keys
    /\ \A k \in Keys : cm_config[1][k] = c[k] /\ Parse(files[ConfigFile])[k] = c[k]

\* The claim as stated, for every path p
C20_Original == \A p \in Paths : ImportedExport(p) => Holds(hist.snap[p][1])

\* C20: export_config(p) to a path p other than the manager's own config
\* file, followed by any later calls (mutations and reset_config among them)
\* and then by an import_config(p) that returns without error, leaves the
\* configuration in memory and the one in the config file equal to the
\* exported configuration in every field.
C20_RoundTrip ==
    \A p \in Paths \ {ConfigFile} : ImportedExport(p) => Holds(hist.snap[p][1])

\* A saved configuration was exported, the manager was reset, and the
\* import brought the saved configuration back
C20_Witness ==
    /\ ImportedExport(OtherFile)
    /\ hist.between[OtherFile]
    /\ hist.snap[OtherFile] = Some(SavedConfig)
    /\ Holds(SavedConfig)

-----------------------------------------------------------------------------
(* C21 *)

\* The configuration a call finds: the one in memory, or the one
\* load_config builds
Current == IF cm_config # None THEN cm_config[1] ELSE Loaded

\* Does the entry e stand for the pair n
IsPair(e, n) == e.owner = n[1] /\ e.repo = n[2]

\* At most one entry of the list per (owner, repo) pair
OnePerPair(list) ==
    \A i, j \in 1..Len(list) :
        (list[i].owner = list[j].owner /\ list[i].repo = list[j].repo) => i = j

\* The list with the entries of pair n left out, the others in order
Without(list, n) ==
    LET Other(e) == ~IsPair(e, n) IN SelectSeq(list, Other)

\* What adding n with flag b makes of the list `old`: an absent pair is
\* appended; a present pair keeps its place and gets the flag, every other
\* entry as it was
AddedTo(old, new, n, b) ==
    IF \E i \in 1..Len(old) : IsPair(old[i], n)
    THEN /\ Len(new) = Len(old)
         /\ \A i \in 1..Len(old) :
               IF IsPair(old[i], n)
               THEN /\ IsPair(new[i], n)
                    /\ new[i].notifications = b
                    /\ new[i].last_checked = old[i].last_checked
               ELSE new[i] = old[i]
    ELSE /\ Len(new) = Len(old) + 1
         /\ SubSeq(new, 1, Len(old)) = old
         /\ IsPair(new[Len(new)], n)
         /\ new[Len(new)].notifications = b

\* What removing n makes of the list: its entry is gone, one entry at most,
\* and the others stand as they were, in order
RemovedFrom(old, new, n) ==
    /\ new = Without(old, n)
    /\ Len(new) >= Len(old) - 1
    /\ \A i \in 1..Len(new) : ~IsPair(new[i], n)

\* C21: starting from the default configuration, over add_watched_repo and
\* remove_watched_repo calls, the watched list holds at most one entry per
\* (owner, repo) pair; a call that returns without error and adds an absent
\* pair appends one entry; adding a present pair only sets that entry's
\* notifications flag, the length and the order staying as they were;
\* removing a pair deletes exactly its entry and leaves the others in order.
C21_OneEntryPerPair ==
    [][ /\ OnePerPair(cm_config'[1].watched_repos)
        /\ \A n \in WatchedPairs, b \in BOOLEAN :
              (add_watched_repo(n[1], n[2], b) /\ hist'.last.ok)
                 => AddedTo(Current.watched_repos, cm_config'[1].watched_repos, n, b)
        /\ \A n \in WatchedPairs :
              (remove_watched_repo(n[1], n[2]) /\ hist'.last.ok)
                 => RemovedFrom(Current.watched_repos, cm_config'[1].watched_repos, n)
      ]_vars

\* Two pairs were added, then the first one was added again with the other
\* flag: it kept the first place
C21_Witness ==
    /\ hist.nops = MaxOps
    /\ hist.clean
    /\ cm_config # None
    /\ cm_config[1].watched_repos =
          <<WatchedRepo("a", "r1", FALSE), WatchedRepo("a", "r2", TRUE)>>
    /\ files[ConfigFile] = model_dump(cm_config[1])

\* Two pairs were added and the first one removed: the second one is left
C21_WitnessRemoved ==
    /\ hist.nops = MaxOps
    /\ hist.clean
    /\ cm_config # None
    /\ cm_config[1].watched_repos = <<WatchedRepo("a", "r2", TRUE)>>

-----------------------------------------------------------------------------
(* C22 *)

\* load_settings has just returned
SettingsLoaded == hist.last = [op |-> "load_settings", path |-> "", ok |-> TRUE]

\* The documented priority: environment variable, user config file, .env
\* file, default
Documented(variable, configured, dotenv, default) ==
    IF variable # None THEN variable[1]
    ELSE IF configured # None THEN configured[1]
    ELSE IF dotenv # None THEN dotenv[1]
    ELSE default

\* C22: load_settings resolves the token and the default organization by
\* the documented priority: environment variable over user config file
\* over .env file over the built-in default.
C22_Original ==
    SettingsLoaded =>
        /\ settings.github_token =
              Documented(environment.environ.GITHUB_TOKEN, cm_config[1].github.token,
                         environment.dotenv.GITHUB_TOKEN, "")
        /\ settings.github_org =
              Documented(environment.environ.GITHUB_ORG, cm_config[1].github.organization,
                         environment.dotenv.GITHUB_ORG, <<>>)

\* The user config file and the .env file both define the token, no
\* variable does: the token of the .env file is the one in use
C22_Witness ==
    /\ SettingsLoaded
    /\ environment.environ.GITHUB_TOKEN = None
    /\ environment.dotenv.GITHUB_TOKEN = Some("td")
    /\ files[ConfigFile].kind = "json"
    /\ cm_config[1].github.token = Some("t0")
    /\ settings.github_token = "td"

-----------------------------------------------------------------------------
(* C23 *)

\* The last request of the get_tree call in flight timed out
TreeTimedOut ==
    /\ call.op = "tree"
    /\ requests # <<>>
    /\ requests[Len(requests)].failed
    /\ requests[Len(requests)].status = 0

\* C23: every get_tree and get_repo_details call eventually returns a result
\* or an error, every upstream request answering or timing out and the
\* upstream lists being finite; a request of get_tree that timed out ends
\* the call with the generic failure (status 500) and leaves nothing pending.
C23_EventuallyReturns ==
    /\ (call.op # "none") ~> (pc = "done")
    /\ [](TreeTimedOut => (pc = "done" /\ outcome.status = 500))

\* get_tree had fetched one root when the next request timed out: the call
\* has returned 500
C23_Witness ==
    /\ TreeTimedOut
    /\ Len(requests) > 2
    /\ tree_nodes # <<>>
    /\ pc = "done"
    /\ outcome.status = 500

-----------------------------------------------------------------------------
(* C24 *)

\* A request for one page of a repository list
IsRepoPage(q) == q.ep \in {"user_repos", "orgs_repos", "users_repos"}

\* The upstream list a page request reads
ListOf(q) == UpstreamRepos(IF q.ep = "user_repos" THEN Me ELSE q.arg)

\* The page a request was answered with held per_page items
FullPage(q) == ~q.failed /\ Len(Page(ListOf(q), q.page)) = per_page

\* q2 asks the page after q1 of the same list at the same endpoint
NextPageOf(q1, q2) ==
    /\ q2.ep = q1.ep
    /\ q2.arg = q1.arg
    /\ q2.page = q1.page + 1

\* No request of the call failed
AllAnswered == \A k \in 1..Len(requests) : ~requests[k].failed

\* C24: the paginated fetch asks pages 1, 2, ... in sequence: a page after
\* the first is asked only right after the page before it was answered with
\* 100 items; after a page of 100 items the next request is the next page;
\* so no page follows a short or empty page. When every request of a
\* successful get_tree was answered, each root's fetch returned the upstream
\* list of its login, all N repositories in upstream order, none missing
\* and none repeated, and so did the fetch of the owned repositories.
C24_PagesInSequence ==
    call.op = "tree" =>
        /\ \A k \in 1..Len(requests) :
              (IsRepoPage(requests[k]) /\ requests[k].page > 1) =>
                  /\ k > 1
                  /\ NextPageOf(requests[k - 1], requests[k])
                  /\ FullPage(requests[k - 1])
        /\ \A k \in 1..Len(requests) :
              (IsRepoPage(requests[k]) /\ FullPage(requests[k])) =>
                  IF k < Len(requests)
                  THEN NextPageOf(requests[k], requests[k + 1])
                  ELSE pc \in {"user_repos", "org_repos"}
        /\ (Succeeded("tree") /\ AllAnswered) =>
              /\ Len(fetched) = Len(orgs_to_fetch)
              /\ \A i \in 1..Len(orgs_to_fetch) :
                    fetched[i] = UpstreamRepos(orgs_to_fetch[i].login)
              /\ Asked("user_repos") => personal_repos = UpstreamRepos(Me)

\* A root with 101 repositories: page 1 and page 2 were asked, and the
\* fetch returned the 101 repositories of the upstream list
C24_Witness ==
    /\ Succeeded("tree")
    /\ AllAnswered
    /\ \E i \in 1..Len(orgs_to_fetch) :
          /\ Len(fetched[i]) = per_page + 1
          /\ fetched[i] = UpstreamRepos(orgs_to_fetch[i].login)
    /\ \E k \in 1..Len(requests) : requests[k].ep = "orgs_repos" /\ requests[k].page = 2

\* A root with exactly 100 repositories: the empty page 2 ended the fetch
C24_WitnessEmptyPage ==
    /\ Succeeded("tree")
    /\ AllAnswered
    /\ \E i \in 1..Len(orgs_to_fetch) : Len(fetched[i]) = per_page
    /\ requests[Len(requests)].page = 2

-----------------------------------------------------------------------------
(* C25 *)

\* C25: in a get_repo_details result, the count in a container's name is
\* the number of items the category's fetch returned (for issues, the
\* number left once the items flagged as pull requests are removed), not
\* the number of children: it is at least the number of children, equals
\* it when it does not exceed the category's cap (runners have no cap), and
\* hasChildren is TRUE exactly when the count is positive.
C25_CountInName ==
    Succeeded("details") =>
        \A i \in 1..Len(outcome.body) :
            LET node == outcome.body[i]
                c == node.type
                count == Len(ReturnedBy(c))
            IN  /\ c \in CategorySet
                /\ node.name = ContainerName(c, count)
                /\ count >= Len(node.children)
                /\ (c \in CappedCategories /\ count <= ClaimedCap(c))
                      => count = Len(node.children)
                /\ c = "runners" => count = Len(node.children)
                /\ node.hasChildren <=> count > 0

\* More workflow runs than the cap: the name counts them all, ten are
\* attached; the issues container counts the issues left after the pull
\* requests were removed
C25_Witness ==
    /\ Succeeded("details")
    /\ \E i \in ContainersOf("workflow_runs") :
          /\ outcome.body[i].name = ContainerName("workflow_runs", MaxItems)
          /\ Len(outcome.body[i].children) = runs_cap
    /\ \E i \in ContainersOf("issues") :
          /\ outcome.body[i].name = ContainerName("issues", Len(Fetched("issues")))
          /\ Len(Fetched("issues")) < Len(UpstreamItems("issues"))
          /\ Len(outcome.body[i].children) = Len(Fetched("issues"))

-----------------------------------------------------------------------------
(* C26 *)

\* The requests get_tree may issue: the organization list, the owned
\* repositories, a root's repositories
ListEndpoints == {"user_orgs", "user_repos", "orgs_repos", "users_repos"}

\* C26: a get_tree call issues only organization-list, owned-repository-list
\* and per-root repository-list requests, never a request for workflows,
\* workflow runs, runners, branches, pull requests or issues. Those are
\* issued by get_repo_details only, for the requested repository, one per
\* category in the fixed order: at most one per category while the call
\* runs, exactly one per category when it returns a result.
C26_NoDetailRequestsInTree ==
    /\ call.op = "tree" =>
          \A k \in 1..Len(requests) :
              requests[k].ep \in ListEndpoints /\ requests[k].ep \notin CategorySet
    /\ call.op = "details" =>
          /\ Len(requests) <= Len(Categories)
          /\ \A k \in 1..Len(requests) :
                /\ requests[k].ep = Categories[k]
                /\ requests[k].arg = call.owner \o <<"/">> \o call.repo
          /\ Succeeded("details") => Len(requests) = Len(Categories)

\* A get_tree over two roots with repositories has returned, having asked
\* for the organization list, the owned repositories and each root's list
C26_Witness ==
    /\ Succeeded("tree")
    /\ Asked("user_orgs")
    /\ Asked("user_repos")
    /\ Asked("orgs_repos")
    /\ Len(orgs_to_fetch) = 2
    /\ \A i \in 1..Len(orgs_to_fetch) : fetched[i] # <<>>
    /\ Len(requests) = 4

\* A get_repo_details has returned, having asked once for each category
C26_WitnessDetails ==
    /\ Succeeded("details")
    /\ Len(requests) = Len(Categories)
    /\ Len(outcome.body) >= 3

-----------------------------------------------------------------------------
(* C27 *)

\* The unread_count a get_notifications_count call returned
UnreadCount == outcome.body[1].unread_count

\* A notifications request of the call was answered with an error status
CountRequestFailed ==
    \E k \in 1..Len(requests) : requests[k].ep = "notifications" /\ requests[k].failed

\* C27: get_notifications_count returns the number of unread notifications:
\* with N unread upstream and every request answered, unread_count = N, for
\* every N; when a notifications request fails with an HTTP error status,
\* unread_count = 0.
C27_Original ==
    Succeeded("count") =>
        /\ AllAnswered => UnreadCount = gh.unread
        /\ CountRequestFailed => UnreadCount = 0

\* Two unread notifications: the first page of one item names page 2 as
\* the last, page 2 of 100 per page is empty, and the call returns 100
C27_Witness ==
    /\ Succeeded("count")
    /\ AllAnswered
    /\ gh.unread = 2
    /\ requests[2].page = 2
    /\ UnreadCount = notifications_per_page

\* Without a last link (N of 0 or 1) the count is right, and a failed
\* notifications request gives 0
C27_CountWithoutLastLink ==
    Succeeded("count") =>
        /\ (AllAnswered /\ gh.unread <= 1) => UnreadCount = gh.unread
        /\ (AllAnswered /\ gh.unread > 1) =>
              UnreadCount = (gh.unread - 1) * notifications_per_page
        /\ CountRequestFailed => UnreadCount = 0


-----------------------------------------------------------------------------
(* C28 *)

\* The list get_org_repos returned for the i-th root is the list of the
\* user-scoped endpoint: every repository once, in upstream order
OnlyUserRepos(i) == fetched[i] = UpstreamRepos(orgs_to_fetch[i].login)

\* C28 as stated: whenever the fetch for a root fell back to the user-scoped
\* endpoint, on the first organization page or on a later one, the returned
\* list is exactly the list of the user-scoped endpoint; nothing collected
\* from organization pages before the 404 remains in it.
C28_Original ==
    call.op = "tree" =>
        \A i \in 1..Len(fetched) : FellBack(i) => OnlyUserRepos(i)

\* The 404 came after a full organization page: the returned list starts
\* with that page and goes on with the whole user-scoped list
C28_Witness ==
    /\ call.op = "tree"
    /\ \E i \in 1..Len(fetched) :
          /\ FellBack(i)
          /\ ~FellBackAtFirstPage(i)
          /\ Len(fetched[i]) = per_page + Len(UpstreamRepos(orgs_to_fetch[i].login))
          /\ SubSeq(fetched[i], 1, per_page)
                = Page(UpstreamRepos(orgs_to_fetch[i].login), 1)
          /\ SubSeq(fetched[i], per_page + 1, Len(fetched[i]))
                = UpstreamRepos(orgs_to_fetch[i].login)

\* When the 404 comes on the first organization page the returned list is
\* the list of the user-scoped endpoint
C28_FallbackAtFirstPage ==
    call.op = "tree" =>
        \A i \in 1..Len(fetched) :
            (FellBack(i) /\ FellBackAtFirstPage(i)) => OnlyUserRepos(i)


-----------------------------------------------------------------------------
(* C29 *)

\* A call of get_tree or get_repo_details starts, without a token header
HeaderlessCallStarts ==
    /\ pc = "idle"
    /\ call'.op \in {"tree", "details"}
    /\ call'.x_github_token = ""

\* C29: with no token in the environment or the .env file, a call that
\* starts without a token header after the configuration endpoint stored
\* token T is given a client holding T; a call that starts without a token
\* header after the reset endpoint ran, and before a token is stored again,
\* ends at once with the 401 answer "GitHub token is required", having
\* issued no upstream request. (Every configuration endpoint call so far
\* returned without error.)
C29_StoredTokenAuthenticates ==
    [][ (HeaderlessCallStarts /\ hist.clean) =>
          /\ hist.auth.state = "stored" =>
                /\ client'.state = "open"
                /\ client'.token = hist.auth.token
                /\ pc' # "done"
          /\ hist.auth.state = "reset" =>
                /\ pc' = "done"
                /\ outcome' = TokenRequired
                /\ client' = NoClient
                /\ requests' = <<>> ]_vars

\* The server started without a token, the endpoint stored t1, and a call
\* without a token header has asked upstream with t1
C29_Witness ==
    /\ hist.clean
    /\ hist.auth = [state |-> "stored", token |-> "t1"]
    /\ call.op \in {"tree", "details"}
    /\ call.x_github_token = ""
    /\ client.token = "t1"
    /\ requests # <<>>

\* After t1 was stored the reset endpoint ran: the call without a token
\* header is refused
C29_WitnessReset ==
    /\ hist.clean
    /\ hist.auth = [state |-> "reset", token |-> "t1"]
    /\ call.op \in {"tree", "details"}
    /\ call.x_github_token = ""
    /\ pc = "done"
    /\ outcome = TokenRequired
    /\ requests = <<>>


-----------------------------------------------------------------------------
(* C30 *)

\* The persisted record
Persisted == Parse(files[ConfigFile])

\* The last call was a mutation by the manager of the server, and it
\* returned
ServerMutated == hist.last.op = "update" /\ hist.last.ok

\* C30 as stated, for the config CLI and the running server: once the CLI
\* has set and saved the token, and whatever other fields the server, which
\* loaded the configuration before, changes afterwards, the persisted record
\* holds the token of the CLI, and after a mutation by the server it holds
\* the server's fields as well. (No call so far failed on a write.)
C30_Original ==
    (hist.clean /\ hist.cli # None) =>
        /\ files[ConfigFile].kind = "json"
        /\ Persisted.github.token = hist.cli
        /\ ServerMutated =>
              /\ Persisted.ui = cm_config[1].ui
              /\ Persisted.watched_repos = cm_config[1].watched_repos
              /\ Persisted.github.api_url = cm_config[1].github.api_url

\* The CLI saved token t1, then the server changed another field: the
\* persisted record holds the server's change and the token the server had
\* loaded at start
C30_Witness ==
    /\ hist.clean
    /\ hist.cli = Some("t1")
    /\ ServerMutated
    /\ files[ConfigFile].kind = "json"
    /\ Persisted = cm_config[1]
    /\ Persisted.github.token # Some("t1")

\* The other order: what the server saved is in the record the CLI writes,
\* the CLI having read config.json anew
C30_CliKeepsServerFields ==
    (hist.clean /\ hist.last.op = "set-token") =>
        /\ Persisted.github.token = hist.cli
        /\ Persisted.ui = cm_config[1].ui
        /\ Persisted.watched_repos = cm_config[1].watched_repos
        /\ Persisted.github.api_url = cm_config[1].github.api_url

=============================================================================
